---- MODULE Spec2Model ----
(***************************************************************************)
(* Autoclave calculator: the conversion engine of src/lib/autoclave.ts     *)
(* over the fixed tool list of src/lib/tools.ts.                           *)
(*                                                                         *)
(* calculateFullAutoclave is modelled as a small program: Start builds the *)
(* maps, each pass of the while loop is one step (ExitAtBound,             *)
(* BreakOnEmpty or RecordIteration), every result of a pass is applied in  *)
(* its own step (ApplyResult), and Finish builds the returned value.       *)
(* All of its state is local to a call, so every engine variable is        *)
(* indexed by the call (Runs).                                             *)
(***************************************************************************)
EXTENDS Integers, Sequences, FiniteSets, TLC

(***************************************************************************)
(* Program constants (src/lib/tools.ts, src/lib/autoclave.ts)              *)
(***************************************************************************)
TOOL_NAMES ==
  << "Surgical Sponge", "Surgical Splint", "Surgical Antiseptic",
     "Surgical Antibiotics", "Surgical Anesthetic", "Surgical Scalpel",
     "Surgical Stitches", "Surgical Lab Kit", "Surgical Clamp",
     "Surgical Pins", "Surgical Transfusion", "Surgical Ultrasound",
     "Surgical Defibrillator" >>

ToolType == { TOOL_NAMES[i] : i \in 1..Len(TOOL_NAMES) }

TOOLS_COUNT == Len(TOOL_NAMES)

AUTOCLAVE_REQUIREMENT == 20

AUTOCLAVE_OUTPUT_COUNT == TOOLS_COUNT - 1

MAX_ITERATIONS == 1000

(***************************************************************************)
(* Bounds of the model                                                     *)
(***************************************************************************)
\* longest input list handed to one call of calculateFullAutoclave
MaxInputs == 2

\* the scaled-down loop bound (see limit)
MaxLimit == 2

\* quantity and reserve of the single conversion range over 0..Max
MaxQuantity == 45

MaxReserve == 25

\* longest input list of the specifications with two calls
MaxInputsTwo == 2

\* rotations of TOOL_NAMES tried as another enumeration order
MaxRotation == 1

\* quantities and reserves of the entries of an input list
Quantities == {19, 39}

Reserves == {0, 20}

\* a quantity large enough to hand every other type 20 units and more
LargeQuantity == 420

\* price values n/d of a call of toWLPerItem: |n| <= MaxPriceNum,
\* d <= MaxPriceDen
MaxPriceNum == 12

MaxPriceDen == 4

\* events handled by the component in one behaviour
MaxEvents == 2

Runs == {1, 2}

(***************************************************************************)
(* JavaScript helpers                                                      *)
(***************************************************************************)
Max(a, b) == IF a >= b THEN a ELSE b

Min(a, b) == IF a <= b THEN a ELSE b

\* new Map()
EmptyMap == [k \in {} |-> 0]

\* map.set(key, value)
MapSet(map, key, value) ==
  [k \in (DOMAIN map) \cup {key} |-> IF k = key THEN value ELSE map[k]]

\* map.get(key) || dflt
MapGet(map, key, dflt) == IF key \in DOMAIN map THEN map[key] ELSE dflt

\* array.map(f)
MapSeq(f(_), s) == [i \in 1..Len(s) |-> f(s[i])]

(***************************************************************************)
(* Single conversion                                                       *)
(***************************************************************************)
calculateAutoclaveCountUnclamped(quantity, minRemainder) ==
  (quantity - minRemainder) \div AUTOCLAVE_REQUIREMENT

calculateAutoclaveCountNoReserve(quantity, minRemainder) ==
  quantity \div AUTOCLAVE_REQUIREMENT

\* Math.floor(Math.max(0, quantity - minRemainder) / 20)
calculateAutoclaveCount(quantity, minRemainder) ==
  LET availableForAutoclave == Max(0, quantity - minRemainder)
  IN  availableForAutoclave \div AUTOCLAVE_REQUIREMENT

calculateRemainder(quantity, autoclaveCount) ==
  LET toolsUsed == autoclaveCount * AUTOCLAVE_REQUIREMENT
  IN  quantity - toolsUsed

getOtherToolsUnfiltered(names, excludeTool) == names

\* TOOL_NAMES.filter(t => t !== excludeTool); names is the enumeration in use
getOtherTools(names, excludeTool) ==
  SelectSeq(names, LAMBDA t : t # excludeTool)

\* input: [tool, quantity, minRemainder]; names is the enumeration the call
\* reads (the module constant TOOL_NAMES in the source)
calculateSingleAutoclave(names, input) ==
  LET minRemainder   == input.minRemainder
      autoclaveCount == calculateAutoclaveCount(input.quantity, minRemainder)
      toolsUsed      == autoclaveCount * AUTOCLAVE_REQUIREMENT
      remainder      == input.quantity - toolsUsed
      otherTools     == getOtherTools(names, input.tool)
      outputTools    == [i \in 1..Len(otherTools) |->
                           [tool |-> otherTools[i], quantity |-> autoclaveCount]]
  IN  [ inputTool      |-> input.tool,
        inputQuantity  |-> input.quantity,
        autoclaveCount |-> autoclaveCount,
        toolsUsed      |-> toolsUsed,
        remainder      |-> remainder,
        outputTools    |-> outputTools ]

(***************************************************************************)
(* calculateFullAutoclave: the pieces of its body                          *)
(***************************************************************************)
DefaultConfig == [minRemainder |-> 0, autoRepeat |-> TRUE]

\* lines 140-146: a later entry of the same tool overwrites an earlier one
RECURSIVE BuildConfigMap(_, _)
BuildConfigMap(map, ins) ==
  IF ins = << >> THEN map
  ELSE BuildConfigMap(
         MapSet(map, Head(ins).tool,
                [minRemainder |-> Head(ins).minRemainder,
                 autoRepeat   |-> Head(ins).autoRepeat # FALSE]),
         Tail(ins))

\* inputs.find(i => i.tool === tool): index of the first match, 0 for none
FindInput(ins, tool) ==
  LET matches == { i \in 1..Len(ins) : ins[i].tool = tool }
  IN  IF matches = {} THEN 0
      ELSE CHOOSE i \in matches : \A j \in matches : i <= j

\* input?.quantity || 0
InputQuantity(ins, tool) ==
  IF FindInput(ins, tool) = 0 THEN 0 ELSE ins[FindInput(ins, tool)].quantity

\* lines 149-153
SeedQuantities(ins) == [t \in ToolType |-> InputQuantity(ins, t)]

\* lines 156-161
ZeroTotals == [t \in ToolType |-> 0]

LoopConditionInclusive(iteration, bound) == iteration <= bound

\* line 169: while (iteration < MAX_ITERATIONS)
LoopCondition(iteration, bound) == iteration < bound

shouldProcessAutoRepeatOnly(iteration, config) == config.autoRepeat

shouldProcessAlways(iteration, config) == TRUE

shouldProcessFirstOnly(iteration, config) == iteration = 1

\* line 179
shouldProcess(iteration, config) == iteration = 1 \/ config.autoRepeat

\* lines 173-186
IterInputs(names, iteration, configs, quantities) ==
  LET build(tool) ==
        LET config   == MapGet(configs, tool, DefaultConfig)
            quantity == MapGet(quantities, tool, 0)
        IN  [ tool         |-> tool,
              quantity     |-> IF shouldProcess(iteration, config)
                               THEN quantity ELSE 0,
              minRemainder |-> config.minRemainder ]
  IN  SelectSeq(MapSeq(build, names), LAMBDA i : i.quantity > 0)

IterResultsUnfiltered(names, iterInputs) ==
  MapSeq(LAMBDA input : calculateSingleAutoclave(names, input), iterInputs)

\* lines 189-191
IterResults(names, iterInputs) ==
  SelectSeq(MapSeq(LAMBDA input : calculateSingleAutoclave(names, input),
                   iterInputs),
            LAMBDA r : r.autoclaveCount > 0)

RECURSIVE SumAutoclaveCount(_)
SumAutoclaveCount(results) ==
  IF results = << >> THEN 0
  ELSE Head(results).autoclaveCount + SumAutoclaveCount(Tail(results))

\* lines 199-206
IterationDetailOf(iteration, results) ==
  [ iteration       |-> iteration,
    totalAutoclaves |-> SumAutoclaveCount(results),
    toolsProcessed  |-> MapSeq(LAMBDA r : [tool |-> r.inputTool,
                                           autoclaveCount |-> r.autoclaveCount],
                               results) ]

SubtractUsedHalf(quantities, result) ==
  MapSet(quantities, result.inputTool,
         MapGet(quantities, result.inputTool, 0) - 10 * result.autoclaveCount)

SubtractUsedCount(quantities, result) ==
  MapSet(quantities, result.inputTool,
         MapGet(quantities, result.inputTool, 0) - result.autoclaveCount)

\* lines 214-215
SubtractUsed(quantities, result) ==
  MapSet(quantities, result.inputTool,
         MapGet(quantities, result.inputTool, 0) - result.toolsUsed)

TrackUsedCount(used, result) ==
  MapSet(used, result.inputTool,
         MapGet(used, result.inputTool, 0) + result.autoclaveCount)

\* lines 218-219
TrackUsed(used, result) ==
  MapSet(used, result.inputTool,
         MapGet(used, result.inputTool, 0) + result.toolsUsed)

\* lines 222-228, one map at a time: map.set(tool, (map.get(tool) || 0) + qty)
RECURSIVE AddOutputs(_, _)
AddOutputs(map, outputs) ==
  IF outputs = << >> THEN map
  ELSE AddOutputs(
         MapSet(map, Head(outputs).tool,
                MapGet(map, Head(outputs).tool, 0) + Head(outputs).quantity),
         Tail(outputs))

ResultToApplyRecomputed(names, result, configs, quantities) ==
  calculateSingleAutoclave(names,
    [ tool         |-> result.inputTool,
      quantity     |-> MapGet(quantities, result.inputTool, 0),
      minRemainder |-> MapGet(configs, result.inputTool, DefaultConfig).minRemainder ])

\* line 210: the loop applies the results computed before any was applied
ResultToApply(names, result, configs, quantities) == result

\* lines 233-246
BuildSummary(names, ins, configs, used, received, quantities) ==
  LET build(tool) ==
        LET config == MapGet(configs, tool, DefaultConfig)
        IN  [ tool             |-> tool,
              originalQuantity |-> InputQuantity(ins, tool),
              minRemainder     |-> config.minRemainder,
              autoRepeat       |-> config.autoRepeat,
              totalToolsUsed   |-> MapGet(used, tool, 0),
              totalReceived    |-> MapGet(received, tool, 0),
              finalQuantity    |-> MapGet(quantities, tool, 0) ]
  IN  MapSeq(build, names)

\* lines 249-252
BuildTotalOutput(received) == [t \in ToolType |-> MapGet(received, t, 0)]

\* the value of an AutoclaveCalculation variable before the call returns
canAutoclaveIgnoringReserve(ins) ==
  \E i \in 1..Len(ins) : calculateAutoclaveCount(ins[i].quantity, 0) > 0

\* lines 267-271
canAutoclave(ins) ==
  \E i \in 1..Len(ins) :
    calculateAutoclaveCount(ins[i].quantity, ins[i].minRemainder) > 0

RECURSIVE getTotalAutoclaveOperations(_)
\* lines 276-280
getTotalAutoclaveOperations(ins) ==
  IF ins = << >> THEN 0
  ELSE getTotalAutoclaveOperations(SubSeq(ins, 1, Len(ins) - 1))
       + calculateAutoclaveCount(ins[Len(ins)].quantity,
                                 ins[Len(ins)].minRemainder)

NoCalculation ==
  [ inputs |-> << >>, results |-> << >>, totalOutput |-> EmptyMap,
    summary |-> << >>, iterations |-> 0, iterationDetails |-> << >> ]

(***************************************************************************)
(* Numbers of the value model.  Prices such as "3 items per WL" make the   *)
(* per-item value a fraction, so a number is a fraction n/d in lowest      *)
(* terms with d > 0; d = 0 stands for the non-finite results (Infinity,    *)
(* NaN) a division by zero yields.                                         *)
(***************************************************************************)
Abs(x) == IF x < 0 THEN 0 - x ELSE x

Sign(x) == IF x < 0 THEN 0 - 1 ELSE IF x > 0 THEN 1 ELSE 0

RECURSIVE GCD(_, _)
GCD(a, b) == IF b = 0 THEN a ELSE GCD(b, a % b)

\* the number n/d
Number(n, d) ==
  IF d = 0 THEN [n |-> Sign(n), d |-> 0]
  ELSE LET g == GCD(Abs(n), Abs(d))
       IN  [n |-> (Sign(d) * n) \div g, d |-> Abs(d) \div g]

Zero == Number(0, 1)

One == Number(1, 1)

Hundred == Number(100, 1)

FromInt(i) == Number(i, 1)

IsFinite(x) == x.d # 0

NumAdd(x, y) == Number(x.n * y.d + y.n * x.d, x.d * y.d)

NumSub(x, y) == Number(x.n * y.d - y.n * x.d, x.d * y.d)

NumMul(x, y) == Number(x.n * y.n, x.d * y.d)

NumDiv(x, y) == Number(x.n * y.d, x.d * y.n)

\* x > 0 and x <= 0 as JavaScript decides them: both false for NaN
NumPositive(x) == x.n > 0

NumNotPositive(x) == x.n <= 0 /\ x # Number(0, 0)

(***************************************************************************)
(* pricing.ts                                                              *)
(***************************************************************************)
\* line 17
PriceType == {"items-per-wl", "wl-each"}

toWLPerItemUnguarded(priceValue, priceType) ==
  IF priceType = "items-per-wl" THEN NumDiv(One, priceValue) ELSE priceValue

\* lines 58-68
toWLPerItem(priceValue, priceType) ==
  IF NumNotPositive(priceValue) THEN Zero
  ELSE IF priceType = "items-per-wl" THEN NumDiv(One, priceValue)
       ELSE priceValue

RECURSIVE calculateTotalValueRaw(_, _)
calculateTotalValueRaw(tools, priceMap) ==
  IF tools = << >> THEN Zero
  ELSE LET item  == tools[Len(tools)]
           total == calculateTotalValueRaw(SubSeq(tools, 1, Len(tools) - 1),
                                           priceMap)
       IN  IF item.tool \notin DOMAIN priceMap
              \/ NumNotPositive(priceMap[item.tool].value)
           THEN total
           ELSE NumAdd(total, NumMul(FromInt(item.quantity),
                                     priceMap[item.tool].value))

RECURSIVE calculateTotalValue(_, _)
\* lines 86-97: the reduce runs over the list from its first entry, so the
\* last entry is added last
calculateTotalValue(tools, priceMap) ==
  IF tools = << >> THEN Zero
  ELSE LET item  == tools[Len(tools)]
           total == calculateTotalValue(SubSeq(tools, 1, Len(tools) - 1),
                                        priceMap)
       IN  IF item.tool \notin DOMAIN priceMap
              \/ NumNotPositive(priceMap[item.tool].value)
           THEN total
           ELSE NumAdd(total,
                       NumMul(FromInt(item.quantity),
                              toWLPerItem(priceMap[item.tool].value,
                                          priceMap[item.tool].type)))

\* lines 102-107
calculateBeforeValue(ins, priceMap) == calculateTotalValue(ins, priceMap)

\* lines 112-121
calculateAfterValue(calc, priceMap) ==
  calculateTotalValue(MapSeq(LAMBDA s : [tool |-> s.tool,
                                         quantity |-> s.finalQuantity],
                             calc.summary),
                      priceMap)

calculateValueDifferenceUnguarded(calc, priceMap) ==
  LET beforeValue == calculateBeforeValue(calc.inputs, priceMap)
      afterValue  == calculateAfterValue(calc, priceMap)
      difference  == NumSub(afterValue, beforeValue)
  IN  [ beforeValue   |-> beforeValue,
        afterValue    |-> afterValue,
        difference    |-> difference,
        profitPercent |-> NumMul(NumDiv(difference, beforeValue), Hundred),
        isProfitable  |-> NumPositive(difference) ]

\* lines 126-142
calculateValueDifference(calc, priceMap) ==
  LET beforeValue == calculateBeforeValue(calc.inputs, priceMap)
      afterValue  == calculateAfterValue(calc, priceMap)
      difference  == NumSub(afterValue, beforeValue)
  IN  [ beforeValue   |-> beforeValue,
        afterValue    |-> afterValue,
        difference    |-> difference,
        profitPercent |-> IF NumPositive(beforeValue)
                          THEN NumMul(NumDiv(difference, beforeValue), Hundred)
                          ELSE Zero,
        isProfitable  |-> NumPositive(difference) ]

getValueBreakdownRaw(calc, priceMap) ==
  MapSeq(LAMBDA s :
           LET price == MapGet(priceMap, s.tool,
                               [value |-> Zero, type |-> "wl-each"])
               wlPerItem   == price.value
               beforeValue == NumMul(FromInt(s.originalQuantity), wlPerItem)
               afterValue  == NumMul(FromInt(s.finalQuantity), wlPerItem)
           IN  [ tool            |-> s.tool,
                 priceValue      |-> price.value,
                 priceType       |-> price.type,
                 wlPerItem       |-> wlPerItem,
                 beforeQuantity  |-> s.originalQuantity,
                 afterQuantity   |-> s.finalQuantity,
                 beforeValue     |-> beforeValue,
                 afterValue      |-> afterValue,
                 valueDifference |-> NumSub(afterValue, beforeValue) ],
         calc.summary)

\* lines 147-169
getValueBreakdown(calc, priceMap) ==
  MapSeq(LAMBDA s :
           LET price == MapGet(priceMap, s.tool,
                               [value |-> Zero, type |-> "wl-each"])
               wlPerItem   == toWLPerItem(price.value, price.type)
               beforeValue == NumMul(FromInt(s.originalQuantity), wlPerItem)
               afterValue  == NumMul(FromInt(s.finalQuantity), wlPerItem)
           IN  [ tool            |-> s.tool,
                 priceValue      |-> price.value,
                 priceType       |-> price.type,
                 wlPerItem       |-> wlPerItem,
                 beforeQuantity  |-> s.originalQuantity,
                 afterQuantity   |-> s.finalQuantity,
                 beforeValue     |-> beforeValue,
                 afterValue      |-> afterValue,
                 valueDifference |-> NumSub(afterValue, beforeValue) ],
         calc.summary)

NoValueCalculation ==
  [ beforeValue |-> Zero, afterValue |-> Zero, difference |-> Zero,
    profitPercent |-> Zero, isProfitable |-> FALSE ]

(***************************************************************************)
(* State                                                                   *)
(***************************************************************************)
VARIABLES
  inputs,             \* the ToolInput[] handed to calculateFullAutoclave
  limit,              \* the bound of the while loop: MAX_ITERATIONS, or a
                      \* scaled-down value that makes the bound exit reachable
  enumeration,        \* per call: the tool enumeration (TOOL_NAMES)
  pc,                 \* per call: position in calculateFullAutoclave
  configMap, currentQuantities, totalUsed, totalReceived,
  allResults, iterationDetails, iteration,
  iterResults,        \* per call: results of the pass not yet applied
  calculation,        \* per call: the returned AutoclaveCalculation
  singleInput,        \* argument of a call of calculateSingleAutoclave
  singleResult,       \* its AutoclaveResult
  singlePc,
  priceInput,         \* arguments of a call of toWLPerItem
  priceResult,        \* its result
  pricePc,
  prices,             \* the price map handed to calculateValueDifference
  valueCalc,          \* the ValueCalculation it returns
  breakdown,          \* the ToolValueBreakdown[] of getValueBreakdown
  valuePc,
  quantities,         \* component state: Map<ToolType, number>, its entries
                      \* in insertion order
  priceState,         \* component state prices: Map<ToolType, PriceData>
  minRemainders,      \* component state
  autoRepeats,        \* component state
  storeTools,         \* object store STORE_TOOLS: tool -> quantity
  storePrices,        \* object store STORE_PRICES: tool -> price
  localMinRemainders, \* localStorage item autoclave-min-remainders
  localAutoRepeats,   \* localStorage item autoclave-auto-repeats
  transactions,       \* readwrite transactions created and not yet
                      \* complete, in the order of their creation
  importJobs,         \* calls of handleGrowscanImport: the map being
                      \* saved and the position of the loop over it
  events,             \* number of events handled
  quickResult,        \* results of canAutoclave and
                      \* getTotalAutoclaveOperations
  quickPc,
  cards,              \* per tool: the props MobileToolCard is rendered with
  cardPc,
  dbInstance,         \* db.ts 52: the cached connection, NoDB for null
  dbPromise,          \* db.ts 53: the cached open request, NoRequest for null
  openRequests,       \* the promises returned by openDB, in call order
  connections,        \* the connections that are open
  getDBCalls,         \* per caller: where its getDB call stands
  microtasks,         \* callers whose continuation after await is queued
  backup,             \* the object the last exportData returned
  completed           \* the db.ts function that completed last

engineVars ==
  << inputs, limit, enumeration, pc, configMap, currentQuantities, totalUsed,
     totalReceived, allResults, iterationDetails, iteration, iterResults,
     calculation >>

singleVars == << singleInput, singleResult, singlePc >>

priceVars == << priceInput, priceResult, pricePc >>

valueVars == << prices, valueCalc, breakdown, valuePc >>

uiVars ==
  << quantities, priceState, minRemainders, autoRepeats, storeTools,
     storePrices, localMinRemainders, localAutoRepeats, transactions,
     importJobs, events >>

quickVars == << quickResult, quickPc >>

cardVars == << cards, cardPc >>

dbVars ==
  << dbInstance, dbPromise, openRequests, connections, getDBCalls,
     microtasks >>

backupVars == << backup, completed >>

vars ==
  << engineVars, singleVars, priceVars, valueVars, uiVars, quickVars,
     cardVars, dbVars, backupVars >>

(***************************************************************************)
(* Inputs                                                                  *)
(***************************************************************************)
\* the types the entries of an input list name; the other 11 are absent.
\* Every entry carries minRemainder and autoRepeat: an absent minRemainder
\* reads as 0 (input.minRemainder || 0) and an absent autoRepeat as true
\* (input.autoRepeat !== false), values the entries below already take.
InputTools == { TOOL_NAMES[1], TOOL_NAMES[2] }

ToolInputs ==
  [ tool : InputTools, quantity : Quantities, minRemainder : Reserves,
    autoRepeat : BOOLEAN ]
  \cup
  { [ tool |-> TOOL_NAMES[1], quantity |-> LargeQuantity, minRemainder |-> 0,
      autoRepeat |-> TRUE ] }

InputLists == UNION { [1..n -> ToolInputs] : n \in 0..MaxInputs }

Limits == {MAX_ITERATIONS, MaxLimit}

NoResult ==
  [ inputTool |-> "", inputQuantity |-> 0, autoclaveCount |-> 0,
    toolsUsed |-> 0, remainder |-> 0, outputTools |-> << >> ]

NoInput == [tool |-> "", quantity |-> 0, minRemainder |-> 0]

EngineIdle ==
  /\ inputs = << >>
  /\ limit = MAX_ITERATIONS
  /\ enumeration = [r \in Runs |-> TOOL_NAMES]
  /\ pc = [r \in Runs |-> "off"]

EngineLocals ==
  /\ configMap = [r \in Runs |-> EmptyMap]
  /\ currentQuantities = [r \in Runs |-> EmptyMap]
  /\ totalUsed = [r \in Runs |-> EmptyMap]
  /\ totalReceived = [r \in Runs |-> EmptyMap]
  /\ allResults = [r \in Runs |-> << >>]
  /\ iterationDetails = [r \in Runs |-> << >>]
  /\ iteration = [r \in Runs |-> 0]
  /\ iterResults = [r \in Runs |-> << >>]
  /\ calculation = [r \in Runs |-> NoCalculation]

SingleIdle ==
  /\ singleInput = NoInput
  /\ singleResult = NoResult
  /\ singlePc = "off"

PriceIdle ==
  /\ priceInput = [value |-> Zero, type |-> "wl-each"]
  /\ priceResult = Zero
  /\ pricePc = "off"

ValueIdle ==
  /\ prices = EmptyMap
  /\ valueCalc = NoValueCalculation
  /\ breakdown = << >>
  /\ valuePc = "off"

NoQuickResult == [canAutoclave |-> FALSE, totalOperations |-> 0]

QuickIdle ==
  /\ quickResult = NoQuickResult
  /\ quickPc = "off"

MaxCallers == 3
MaxOpens == 3

NoDB == 0
NoRequest == 0
Callers == 1..MaxCallers

NotCalled == [pc |-> "idle", request |-> NoRequest, result |-> NoDB]

\* db.ts 52-53 before any call of getDB
DbIdle ==
  /\ dbInstance = NoDB
  /\ dbPromise = NoRequest
  /\ openRequests = << >>
  /\ connections = {}
  /\ getDBCalls = [c \in Callers |-> NotCalled]
  /\ microtasks = << >>

NoBackup == [tools |-> << >>, prices |-> << >>, minRemainders |-> EmptyMap]

BackupIdle ==
  /\ backup = NoBackup
  /\ completed = "none"

CardIdle ==
  /\ cards = EmptyMap
  /\ cardPc = "off"

\* the component is not mounted
UiIdle ==
  /\ quantities = << >>
  /\ priceState = EmptyMap
  /\ minRemainders = EmptyMap
  /\ autoRepeats = EmptyMap
  /\ storeTools = EmptyMap
  /\ storePrices = EmptyMap
  /\ localMinRemainders = EmptyMap
  /\ localAutoRepeats = EmptyMap
  /\ transactions = << >>
  /\ importJobs = << >>
  /\ events = 0

\* one call of calculateFullAutoclave
Init ==
  /\ inputs \in InputLists
  /\ limit \in Limits
  /\ enumeration = [r \in Runs |-> TOOL_NAMES]
  /\ pc = [r \in Runs |-> IF r = 1 THEN "start" ELSE "off"]
  /\ EngineLocals
  /\ SingleIdle
  /\ PriceIdle
  /\ ValueIdle
  /\ UiIdle
  /\ QuickIdle
  /\ CardIdle
  /\ DbIdle
  /\ BackupIdle

ToolInputsTwo ==
  [ tool : InputTools, quantity : Quantities, minRemainder : {0},
    autoRepeat : BOOLEAN ]

InputListsTwo == UNION { [1..n -> ToolInputsTwo] : n \in 0..MaxInputsTwo }

\* the list the component builds (part_001 1387-1392): one entry for each
\* of the 13 types in the order of TOOL_NAMES, here with the first two types
\* as entered and the others at their defaults
FullInputList(first, second) ==
  [ i \in 1..Len(TOOL_NAMES) |->
      IF i = 1 THEN first
      ELSE IF i = 2 THEN second
      ELSE [ tool |-> TOOL_NAMES[i], quantity |-> 0, minRemainder |-> 0,
             autoRepeat |-> TRUE ] ]

FullInputLists ==
  { FullInputList(first, second) :
      first  \in { e \in ToolInputsTwo : e.tool = TOOL_NAMES[1] },
      second \in { e \in ToolInputsTwo : e.tool = TOOL_NAMES[2] } }

Reverse(s) == [i \in 1..Len(s) |-> s[Len(s) + 1 - i]]

Rotate(s, k) == [i \in 1..Len(s) |-> s[((i + k - 1) % Len(s)) + 1]]

\* other orders in which the 13 types could be enumerated
Enumerations ==
  {Reverse(TOOL_NAMES)} \cup { Rotate(TOOL_NAMES, k) : k \in 1..MaxRotation }

\* two calls of calculateFullAutoclave on the same input list
InitTwo ==
  /\ inputs \in InputListsTwo
  /\ limit \in Limits
  /\ enumeration = [r \in Runs |-> TOOL_NAMES]
  /\ pc = [r \in Runs |-> "start"]
  /\ EngineLocals
  /\ SingleIdle
  /\ PriceIdle
  /\ ValueIdle
  /\ UiIdle
  /\ QuickIdle
  /\ CardIdle
  /\ DbIdle
  /\ BackupIdle

\* two calls on the same input list, the second enumerating the types in
\* another order
InitPerm ==
  /\ inputs \in InputListsTwo
  /\ limit \in Limits
  /\ \E e \in Enumerations :
       enumeration = [r \in Runs |-> IF r = 1 THEN TOOL_NAMES ELSE e]
  /\ pc = [r \in Runs |-> "start"]
  /\ EngineLocals
  /\ SingleIdle
  /\ PriceIdle
  /\ ValueIdle
  /\ UiIdle
  /\ QuickIdle
  /\ CardIdle
  /\ DbIdle
  /\ BackupIdle

\* one call of calculateSingleAutoclave
InitSingle ==
  /\ singleInput \in [ tool : InputTools, quantity : 0..MaxQuantity,
                       minRemainder : 0..MaxReserve ]
  /\ singleResult = NoResult
  /\ singlePc = "call"
  /\ EngineIdle
  /\ EngineLocals
  /\ PriceIdle
  /\ ValueIdle
  /\ UiIdle
  /\ QuickIdle
  /\ CardIdle
  /\ DbIdle
  /\ BackupIdle

(***************************************************************************)
(* Actions of calculateFullAutoclave                                       *)
(***************************************************************************)
StartSharedTotals(r) ==
  /\ pc[r] = "start"
  /\ configMap' = [configMap EXCEPT ![r] = BuildConfigMap(EmptyMap, inputs)]
  /\ currentQuantities' = [currentQuantities EXCEPT ![r] = SeedQuantities(inputs)]
  /\ totalUsed' =
       [totalUsed EXCEPT
          ![r] = IF \E o \in Runs \ {r} : pc[o] \notin {"off", "start"}
                 THEN totalUsed[CHOOSE o \in Runs \ {r} :
                                  pc[o] \notin {"off", "start"}]
                 ELSE ZeroTotals]
  /\ totalReceived' = [totalReceived EXCEPT ![r] = ZeroTotals]
  /\ allResults' = [allResults EXCEPT ![r] = << >>]
  /\ iterationDetails' = [iterationDetails EXCEPT ![r] = << >>]
  /\ iteration' = [iteration EXCEPT ![r] = 0]
  /\ pc' = [pc EXCEPT ![r] = "loop"]
  /\ UNCHANGED << inputs, limit, enumeration, iterResults, calculation >>
  /\ UNCHANGED << singleVars, priceVars, valueVars,
                  uiVars, quickVars, cardVars, dbVars, backupVars >>

\* lines 139-165
Start(r) ==
  /\ pc[r] = "start"
  /\ configMap' = [configMap EXCEPT ![r] = BuildConfigMap(EmptyMap, inputs)]
  /\ currentQuantities' = [currentQuantities EXCEPT ![r] = SeedQuantities(inputs)]
  /\ totalUsed' = [totalUsed EXCEPT ![r] = ZeroTotals]
  /\ totalReceived' = [totalReceived EXCEPT ![r] = ZeroTotals]
  /\ allResults' = [allResults EXCEPT ![r] = << >>]
  /\ iterationDetails' = [iterationDetails EXCEPT ![r] = << >>]
  /\ iteration' = [iteration EXCEPT ![r] = 0]
  /\ pc' = [pc EXCEPT ![r] = "loop"]
  /\ UNCHANGED << inputs, limit, enumeration, iterResults, calculation >>
  /\ UNCHANGED << singleVars, priceVars, valueVars,
                  uiVars, quickVars, cardVars, dbVars, backupVars >>

\* the results of the pass that starts now (iteration already incremented)
PassResults(r) ==
  IterResults(enumeration[r],
              IterInputs(enumeration[r], iteration[r] + 1, configMap[r],
                         currentQuantities[r]))

\* line 169: the loop condition fails
ExitAtBound(r) ==
  /\ pc[r] = "loop"
  /\ ~ LoopCondition(iteration[r], limit)
  /\ pc' = [pc EXCEPT ![r] = "summary"]
  /\ UNCHANGED << inputs, limit, enumeration, configMap, currentQuantities,
                  totalUsed, totalReceived, allResults, iterationDetails,
                  iteration, iterResults, calculation >>
  /\ UNCHANGED << singleVars, priceVars, valueVars,
                  uiVars, quickVars, cardVars, dbVars, backupVars >>

BreakOnEmptyRecorded(r) ==
  /\ pc[r] = "loop"
  /\ LoopCondition(iteration[r], limit)
  /\ PassResults(r) = << >>
  /\ iteration' = [iteration EXCEPT ![r] = @ + 1]
  /\ iterationDetails' =
       [iterationDetails EXCEPT
          ![r] = Append(@, IterationDetailOf(iteration[r] + 1, PassResults(r)))]
  /\ pc' = [pc EXCEPT ![r] = "summary"]
  /\ UNCHANGED << inputs, limit, enumeration, configMap, currentQuantities,
                  totalUsed, totalReceived, allResults, iterResults,
                  calculation >>
  /\ UNCHANGED << singleVars, priceVars, valueVars,
                  uiVars, quickVars, cardVars, dbVars, backupVars >>

\* lines 170-196: a pass with no operation ends the loop
BreakOnEmpty(r) ==
  /\ pc[r] = "loop"
  /\ LoopCondition(iteration[r], limit)
  /\ PassResults(r) = << >>
  /\ iteration' = [iteration EXCEPT ![r] = @ + 1]
  /\ pc' = [pc EXCEPT ![r] = "summary"]
  /\ UNCHANGED << inputs, limit, enumeration, configMap, currentQuantities,
                  totalUsed, totalReceived, allResults, iterationDetails,
                  iterResults, calculation >>
  /\ UNCHANGED << singleVars, priceVars, valueVars,
                  uiVars, quickVars, cardVars, dbVars, backupVars >>

\* lines 170-207: a pass with operations is recorded
RecordIteration(r) ==
  /\ pc[r] = "loop"
  /\ LoopCondition(iteration[r], limit)
  /\ PassResults(r) # << >>
  /\ iteration' = [iteration EXCEPT ![r] = @ + 1]
  /\ iterationDetails' =
       [iterationDetails EXCEPT
          ![r] = Append(@, IterationDetailOf(iteration[r] + 1, PassResults(r)))]
  /\ iterResults' = [iterResults EXCEPT ![r] = PassResults(r)]
  /\ pc' = [pc EXCEPT ![r] = "apply"]
  /\ UNCHANGED << inputs, limit, enumeration, configMap, currentQuantities,
                  totalUsed, totalReceived, allResults, calculation >>
  /\ UNCHANGED << singleVars, priceVars, valueVars,
                  uiVars, quickVars, cardVars, dbVars, backupVars >>

\* lines 210-229: one turn of the for loop over iterResults
ApplyResult(r) ==
  /\ pc[r] = "apply"
  /\ iterResults[r] # << >>
  /\ LET result == ResultToApply(enumeration[r], Head(iterResults[r]),
                                 configMap[r], currentQuantities[r])
     IN  /\ allResults' = [allResults EXCEPT ![r] = Append(@, result)]
         /\ currentQuantities' =
              [currentQuantities EXCEPT
                 ![r] = AddOutputs(SubtractUsed(@, result), result.outputTools)]
         /\ totalUsed' = [totalUsed EXCEPT ![r] = TrackUsed(@, result)]
         /\ totalReceived' =
              [totalReceived EXCEPT ![r] = AddOutputs(@, result.outputTools)]
  /\ iterResults' = [iterResults EXCEPT ![r] = Tail(@)]
  /\ pc' = [pc EXCEPT ![r] = IF Tail(iterResults[r]) = << >>
                             THEN "loop" ELSE "apply"]
  /\ UNCHANGED << inputs, limit, enumeration, configMap, iterationDetails,
                  iteration, calculation >>
  /\ UNCHANGED << singleVars, priceVars, valueVars,
                  uiVars, quickVars, cardVars, dbVars, backupVars >>

\* lines 232-261
Finish(r) ==
  /\ pc[r] = "summary"
  /\ calculation' =
       [calculation EXCEPT ![r] =
          [ inputs           |-> inputs,
            results          |-> allResults[r],
            totalOutput      |-> BuildTotalOutput(totalReceived[r]),
            summary          |-> BuildSummary(enumeration[r], inputs,
                                   configMap[r], totalUsed[r],
                                   totalReceived[r], currentQuantities[r]),
            iterations       |-> Len(iterationDetails[r]),
            iterationDetails |-> iterationDetails[r] ]]
  /\ pc' = [pc EXCEPT ![r] = "done"]
  /\ UNCHANGED << inputs, limit, enumeration, configMap, currentQuantities,
                  totalUsed, totalReceived, allResults, iterationDetails,
                  iteration, iterResults >>
  /\ UNCHANGED << singleVars, priceVars, valueVars,
                  uiVars, quickVars, cardVars, dbVars, backupVars >>

Next ==
  \/ \E r \in Runs : Start(r)
  \/ \E r \in Runs : ExitAtBound(r)
  \/ \E r \in Runs : BreakOnEmpty(r)
  \/ \E r \in Runs : RecordIteration(r)
  \/ \E r \in Runs : ApplyResult(r)
  \/ \E r \in Runs : Finish(r)

Spec == Init /\ [][Next]_vars

SpecTwo == InitTwo /\ [][Next]_vars

SpecPerm == InitPerm /\ [][Next]_vars

(***************************************************************************)
(* A call of calculateSingleAutoclave on its own                           *)
(***************************************************************************)
CallSingle ==
  /\ singlePc = "call"
  /\ singleResult' = calculateSingleAutoclave(TOOL_NAMES, singleInput)
  /\ singlePc' = "returned"
  /\ UNCHANGED singleInput
  /\ UNCHANGED << engineVars, priceVars, valueVars,
                  uiVars, quickVars, cardVars, dbVars, backupVars >>

NextSingle == CallSingle

SpecSingle == InitSingle /\ [][NextSingle]_vars

(***************************************************************************)
(* canAutoclave and getTotalAutoclaveOperations next to a full call        *)
(***************************************************************************)
InitQuick ==
  /\ inputs \in InputLists \cup FullInputLists
  /\ limit \in Limits
  /\ enumeration = [r \in Runs |-> TOOL_NAMES]
  /\ pc = [r \in Runs |-> IF r = 1 THEN "start" ELSE "off"]
  /\ EngineLocals
  /\ SingleIdle
  /\ PriceIdle
  /\ ValueIdle
  /\ UiIdle
  /\ quickResult = NoQuickResult
  /\ quickPc = "call"
  /\ CardIdle
  /\ DbIdle
  /\ BackupIdle

CallQuickChecks ==
  /\ quickPc = "call"
  /\ pc[1] = "done"
  /\ quickResult' =
       [ canAutoclave    |-> canAutoclave(inputs),
         totalOperations |-> getTotalAutoclaveOperations(inputs) ]
  /\ quickPc' = "returned"
  /\ UNCHANGED << engineVars, singleVars, priceVars,
                  valueVars, uiVars, cardVars, dbVars, backupVars >>

NextQuick ==
  \/ Next
  \/ CallQuickChecks

SpecQuick == InitQuick /\ [][NextQuick]_vars

(***************************************************************************)
(* A call of toWLPerItem on its own                                        *)
(***************************************************************************)
\* the price values entered: fractions n/d, negative and zero included
PriceValues ==
  { Number(n, d) : n \in (0 - MaxPriceNum)..MaxPriceNum, d \in 1..MaxPriceDen }

InitPrice ==
  /\ priceInput \in [value : PriceValues, type : PriceType]
  /\ priceResult = Zero
  /\ pricePc = "call"
  /\ EngineIdle
  /\ EngineLocals
  /\ SingleIdle
  /\ ValueIdle
  /\ UiIdle
  /\ QuickIdle
  /\ CardIdle
  /\ DbIdle
  /\ BackupIdle

CallToWLPerItem ==
  /\ pricePc = "call"
  /\ priceResult' = toWLPerItem(priceInput.value, priceInput.type)
  /\ pricePc' = "returned"
  /\ UNCHANGED priceInput
  /\ UNCHANGED << engineVars, singleVars, valueVars,
                  uiVars, quickVars, cardVars, dbVars, backupVars >>

NextPrice == CallToWLPerItem

SpecPrice == InitPrice /\ [][NextPrice]_vars

(***************************************************************************)
(* calculateValueDifference on the result of calculateFullAutoclave        *)
(***************************************************************************)
\* the types that may have an entry in the price map: the two input types
\* and one type that only receives
PricedTools == InputTools \cup { TOOL_NAMES[3] }

\* the entries of a price map: a price of 2 WL each, of 3 items per WL, of 0
\* and a negative one
PriceEntries ==
  { [value |-> FromInt(2), type |-> "wl-each"],
    [value |-> FromInt(3), type |-> "items-per-wl"],
    [value |-> Zero, type |-> "wl-each"],
    [value |-> FromInt(0 - 1), type |-> "items-per-wl"] }

\* price maps with or without an entry for each of these types; the type
\* that only receives has a price > 0 when it has one
PartialPriceMaps ==
  { m \in UNION { [tools -> PriceEntries] : tools \in SUBSET PricedTools } :
      TOOL_NAMES[3] \in DOMAIN m =>
        m[TOOL_NAMES[3]] = [value |-> FromInt(2), type |-> "wl-each"] }

\* price maps that give all 13 types the same per-item value: one price for
\* all, or 2 WL each for some and 1/2 item per WL for the others
UniformPriceMaps ==
  { [t \in ToolType |-> [value |-> FromInt(2), type |-> "wl-each"]],
    [t \in ToolType |-> [value |-> FromInt(3), type |-> "items-per-wl"]],
    [t \in ToolType |->
       IF t \in InputTools
       THEN [value |-> FromInt(2), type |-> "wl-each"]
       ELSE [value |-> Number(1, 2), type |-> "items-per-wl"]] }

PriceMaps == PartialPriceMaps \cup UniformPriceMaps

\* one call of calculateFullAutoclave, then calculateValueDifference on its
\* result; the input list may name a type twice
InitValue ==
  /\ inputs \in InputListsTwo \cup FullInputLists
  /\ limit \in Limits
  /\ enumeration = [r \in Runs |-> TOOL_NAMES]
  /\ pc = [r \in Runs |-> IF r = 1 THEN "start" ELSE "off"]
  /\ EngineLocals
  /\ SingleIdle
  /\ PriceIdle
  /\ prices \in PriceMaps
  /\ valueCalc = NoValueCalculation
  /\ breakdown = << >>
  /\ valuePc = "call"
  /\ UiIdle
  /\ QuickIdle
  /\ CardIdle
  /\ DbIdle
  /\ BackupIdle

CallValueDifference ==
  /\ valuePc = "call"
  /\ pc[1] = "done"
  /\ valueCalc' = calculateValueDifference(calculation[1], prices)
  /\ valuePc' = "returned"
  /\ UNCHANGED << prices, breakdown >>
  /\ UNCHANGED << engineVars, singleVars, priceVars,
                  uiVars, quickVars, cardVars, dbVars, backupVars >>

\* part_001 1402: the breakdown of the same calculation
CallValueBreakdown ==
  /\ valuePc = "returned"
  /\ breakdown' = getValueBreakdown(calculation[1], prices)
  /\ valuePc' = "done"
  /\ UNCHANGED << prices, valueCalc >>
  /\ UNCHANGED << engineVars, singleVars, priceVars,
                  uiVars, quickVars, cardVars, dbVars, backupVars >>

NextValue ==
  \/ Next
  \/ CallValueDifference
  \/ CallValueBreakdown

SpecValue == InitValue /\ [][NextValue]_vars

(***************************************************************************)
(* The AutoclaveCalculator component: its state, what it hands to the      *)
(* engine and the value model on each render, its change handlers and the  *)
(* writes they start.                                                      *)
(***************************************************************************)
\* A JavaScript Map as the sequence of its entries in insertion order
JsMapHas(map, key) == \E i \in 1..Len(map) : map[i].tool = key

JsMapGet(map, key, dflt) ==
  IF JsMapHas(map, key)
  THEN map[CHOOSE i \in 1..Len(map) : map[i].tool = key].quantity
  ELSE dflt

JsMapSet(map, key, value) ==
  IF JsMapHas(map, key)
  THEN [ i \in 1..Len(map) |->
           IF map[i].tool = key THEN [tool |-> key, quantity |-> value]
           ELSE map[i] ]
  ELSE Append(map, [tool |-> key, quantity |-> value])

\* the keys of an object store in the order getAll returns them: ascending
STORE_KEY_ORDER ==
  << TOOL_NAMES[5], TOOL_NAMES[4], TOOL_NAMES[3], TOOL_NAMES[9],
     TOOL_NAMES[13], TOOL_NAMES[8], TOOL_NAMES[10], TOOL_NAMES[6],
     TOOL_NAMES[2], TOOL_NAMES[1], TOOL_NAMES[7], TOOL_NAMES[11],
     TOOL_NAMES[12] >>

\* db.ts 159-162, part_001 1259-1262: the Map loadData builds
LoadedQuantities(store) ==
  [ i \in 1..Len(STORE_KEY_ORDER) |->
      [tool |-> STORE_KEY_ORDER[i], quantity |-> store[STORE_KEY_ORDER[i]]] ]

DefaultPrice == [value |-> Zero, type |-> "wl-each"]

\* part_001 1387-1392: const inputs
ComponentInputs ==
  [ i \in 1..Len(TOOL_NAMES) |->
      [ tool         |-> TOOL_NAMES[i],
        quantity     |-> JsMapGet(quantities, TOOL_NAMES[i], 0),
        minRemainder |-> MapGet(minRemainders, TOOL_NAMES[i], 0),
        autoRepeat   |-> MapGet(autoRepeats, TOOL_NAMES[i], TRUE) ] ]

RECURSIVE createPriceMap(_)
\* pricing.ts 174-182
createPriceMap(toolPrices) ==
  IF toolPrices = << >> THEN EmptyMap
  ELSE LET last == toolPrices[Len(toolPrices)]
       IN  MapSet(createPriceMap(SubSeq(toolPrices, 1, Len(toolPrices) - 1)),
                  last.tool,
                  [value |-> last.priceValue, type |-> last.priceType])

\* part_001 1395-1400: const priceMap
ComponentPriceMap ==
  createPriceMap(
    [ i \in 1..Len(TOOL_NAMES) |->
        LET p == MapGet(priceState, TOOL_NAMES[i], DefaultPrice)
        IN  [tool |-> TOOL_NAMES[i], priceValue |-> p.value,
             priceType |-> p.type] ])

\* Math.max(0, x) on a number of the value model
NumMaxZero(x) == IF x.n > 0 THEN x ELSE Zero

\* db.ts 176-179: the transaction db.put creates; job is the call of
\* handleGrowscanImport that awaits it, 0 for none
setToolQuantity(tool, quantity, job) ==
  [ store |-> "tools", tool |-> tool, quantity |-> Max(0, quantity),
    priceValue |-> Zero, priceType |-> "wl-each", job |-> job ]

\* db.ts 237-248
setToolPrice(tool, priceValue, priceType) ==
  [ store |-> "prices", tool |-> tool, quantity |-> 0,
    priceValue |-> NumMaxZero(priceValue), priceType |-> priceType,
    job |-> 0 ]

RECURSIVE handleConfirmOnlyDetected(_, _)
handleConfirmOnlyDetected(current, detectedTools) ==
  IF detectedTools = << >> THEN << >>
  ELSE LET last == detectedTools[Len(detectedTools)]
       IN  JsMapSet(handleConfirmOnlyDetected(
                      current,
                      SubSeq(detectedTools, 1, Len(detectedTools) - 1)),
                    last.tool, last.quantity)

RECURSIVE handleConfirm(_, _)
\* GrowscanImport.tsx 106-115: the Map handed to onImport
handleConfirm(current, detectedTools) ==
  IF detectedTools = << >> THEN current
  ELSE LET last == detectedTools[Len(detectedTools)]
       IN  JsMapSet(handleConfirm(
                      current,
                      SubSeq(detectedTools, 1, Len(detectedTools) - 1)),
                    last.tool, last.quantity)

\* the values entered on the cards of the two input types: parseInt and
\* parseFloat of the field, negative values included
EnteredQuantities == {0 - 1, 19}

EnteredPrices == {FromInt(0 - 1), Number(1, 2)}

EnteredMinRemainders == {0 - 1, 20}

\* what parseGrowscanText may detect (GrowscanImport.tsx 45-85): no type
\* twice, quantities >= 0
DetectedLists ==
  { << [tool |-> TOOL_NAMES[2], quantity |-> 7] >>,
    << [tool |-> TOOL_NAMES[1], quantity |-> 0],
       [tool |-> TOOL_NAMES[3], quantity |-> 5] >> }

\* the quantities persisted by earlier sessions
StoredQuantities == {0, 39}

\* the component after loadData (part_001 1241-1286): its state is what the
\* stores hold
InitUi ==
  /\ storeTools \in { f \in [ToolType -> StoredQuantities \cup {0}] :
                        \A t \in ToolType \ InputTools : f[t] = 0 }
  /\ storePrices = [t \in ToolType |-> DefaultPrice]
  /\ localMinRemainders = [t \in ToolType |-> 0]
  /\ localAutoRepeats = [t \in ToolType |-> TRUE]
  /\ quantities = LoadedQuantities(storeTools)
  /\ priceState = storePrices
  /\ minRemainders = localMinRemainders
  /\ autoRepeats = localAutoRepeats
  /\ transactions = << >>
  /\ importJobs = << >>
  /\ events = 0
  /\ EngineIdle
  /\ EngineLocals
  /\ SingleIdle
  /\ PriceIdle
  /\ ValueIdle
  /\ QuickIdle
  /\ CardIdle
  /\ DbIdle
  /\ BackupIdle

\* part_001 1288-1302
HandleQuantityChange(tool, quantity) ==
  /\ events < MaxEvents
  /\ events' = events + 1
  /\ quantities' = JsMapSet(quantities, tool, quantity)
  /\ transactions' = Append(transactions, setToolQuantity(tool, quantity, 0))
  /\ UNCHANGED << priceState, minRemainders, autoRepeats, storeTools,
                  storePrices, localMinRemainders, localAutoRepeats,
                  importJobs >>
  /\ UNCHANGED << engineVars, singleVars, priceVars,
                  valueVars, quickVars, cardVars, dbVars, backupVars >>

\* part_001 1304-1318
HandlePriceChange(tool, value, type) ==
  /\ events < MaxEvents
  /\ events' = events + 1
  /\ priceState' = MapSet(priceState, tool, [value |-> value, type |-> type])
  /\ transactions' = Append(transactions, setToolPrice(tool, value, type))
  /\ UNCHANGED << quantities, minRemainders, autoRepeats, storeTools,
                  storePrices, localMinRemainders, localAutoRepeats,
                  importJobs >>
  /\ UNCHANGED << engineVars, singleVars, priceVars,
                  valueVars, quickVars, cardVars, dbVars, backupVars >>

\* part_001 1320-1330, db.ts 352-360
HandleMinRemainderChange(tool, value) ==
  /\ events < MaxEvents
  /\ events' = events + 1
  /\ minRemainders' = MapSet(minRemainders, tool, Max(0, value))
  /\ localMinRemainders' =
       MapSet(localMinRemainders, tool, Max(0, Max(0, value)))
  /\ UNCHANGED << quantities, priceState, autoRepeats, storeTools,
                  storePrices, localAutoRepeats, transactions, importJobs >>
  /\ UNCHANGED << engineVars, singleVars, priceVars,
                  valueVars, quickVars, cardVars, dbVars, backupVars >>

\* part_001 1332-1342, db.ts 438-446
HandleAutoRepeatChange(tool, value) ==
  /\ events < MaxEvents
  /\ events' = events + 1
  /\ autoRepeats' = MapSet(autoRepeats, tool, value)
  /\ localAutoRepeats' = MapSet(localAutoRepeats, tool, value)
  /\ UNCHANGED << quantities, priceState, minRemainders, storeTools,
                  storePrices, localMinRemainders, transactions, importJobs >>
  /\ UNCHANGED << engineVars, singleVars, priceVars,
                  valueVars, quickVars, cardVars, dbVars, backupVars >>

\* GrowscanImport.tsx 106-115 and part_001 1370-1385 up to the first await:
\* the state is replaced and the first entry of the Map is put
HandleGrowscanImport(detectedTools) ==
  /\ events < MaxEvents
  /\ events' = events + 1
  /\ LET importedQuantities == handleConfirm(quantities, detectedTools)
     IN  /\ quantities' = importedQuantities
         /\ importJobs' =
              Append(importJobs, [imported |-> importedQuantities, next |-> 2])
         /\ transactions' =
              IF importedQuantities = << >> THEN transactions
              ELSE Append(transactions,
                          setToolQuantity(importedQuantities[1].tool,
                                          importedQuantities[1].quantity,
                                          Len(importJobs) + 1))
  /\ UNCHANGED << priceState, minRemainders, autoRepeats, storeTools,
                  storePrices, localMinRemainders, localAutoRepeats >>
  /\ UNCHANGED << engineVars, singleVars, priceVars,
                  valueVars, quickVars, cardVars, dbVars, backupVars >>

\* transactions without position i
Without(seq, i) == SubSeq(seq, 1, i - 1) \o SubSeq(seq, i + 1, Len(seq))

\* A transaction completes.  Transactions on one store complete in the
\* order of their creation; the handler awaiting it resumes, and the loop
\* of handleGrowscanImport (part_001 1376-1382) puts its next entry.
Complete(i) ==
  /\ i \in 1..Len(transactions)
  /\ \A j \in 1..(i - 1) : transactions[j].store # transactions[i].store
  /\ LET tx   == transactions[i]
         rest == Without(transactions, i)
     IN  /\ IF tx.store = "tools"
            THEN /\ storeTools' = [storeTools EXCEPT ![tx.tool] = tx.quantity]
                 /\ UNCHANGED storePrices
            ELSE /\ storePrices' =
                      [storePrices EXCEPT
                         ![tx.tool] = [value |-> tx.priceValue,
                                       type  |-> tx.priceType]]
                 /\ UNCHANGED storeTools
         /\ IF tx.job # 0 /\ importJobs[tx.job].next
                               <= Len(importJobs[tx.job].imported)
            THEN LET job   == importJobs[tx.job]
                     entry == job.imported[job.next]
                 IN  /\ transactions' =
                          Append(rest, setToolQuantity(entry.tool,
                                                       entry.quantity, tx.job))
                     /\ importJobs' =
                          [importJobs EXCEPT ![tx.job].next = @ + 1]
            ELSE /\ transactions' = rest
                 /\ UNCHANGED importJobs
  /\ UNCHANGED << quantities, priceState, minRemainders, autoRepeats,
                  localMinRemainders, localAutoRepeats, events >>
  /\ UNCHANGED << engineVars, singleVars, priceVars,
                  valueVars, quickVars, cardVars, dbVars, backupVars >>

NextUi ==
  \/ \E tool \in InputTools, quantity \in EnteredQuantities :
       HandleQuantityChange(tool, quantity)
  \/ \E tool \in InputTools, value \in EnteredPrices, type \in PriceType :
       HandlePriceChange(tool, value, type)
  \/ \E tool \in InputTools, value \in EnteredMinRemainders :
       HandleMinRemainderChange(tool, value)
  \/ \E tool \in InputTools, value \in BOOLEAN :
       HandleAutoRepeatChange(tool, value)
  \/ \E detectedTools \in DetectedLists : HandleGrowscanImport(detectedTools)
  \/ \E i \in 1..Len(transactions) : Complete(i)

SpecUi == InitUi /\ [][NextUi]_vars

(***************************************************************************)
(* One render of the component: the engine runs on the inputs built from   *)
(* the state, then each tool card is rendered from the result.             *)
(***************************************************************************)
\* x || y on numbers: y when x is 0
JsOr(x, y) == IF x = 0 THEN y ELSE x

\* part_001 1505-1520 and MobileToolCard.tsx 44, 89-91: the quantity and the
\* finalQuantity a card is given, and whether it shows them
CardProps(tool, calc) ==
  LET qty == JsOr(JsMapGet(quantities, tool, 0), 0)
      summaries == { i \in 1..Len(calc.summary) : calc.summary[i].tool = tool }
  IN  [ quantity      |-> qty,
        finalQuantity |-> IF summaries = {} THEN qty
                          ELSE JsOr(calc.summary[CHOOSE i \in summaries : TRUE]
                                      .finalQuantity,
                                    qty),
        hasQuantity   |-> qty > 0 ]

\* the quantities held when the component renders
CardQuantities == {0, 20, 39}

\* the component at a render: its state as loaded from the stores, the
\* engine about to run on the inputs built from it
InitCard ==
  /\ storeTools \in { f \in [ToolType -> CardQuantities] :
                        \A t \in ToolType \ InputTools : f[t] = 0 }
  /\ storePrices = [t \in ToolType |-> DefaultPrice]
  /\ localMinRemainders \in
       { f \in [ToolType -> Reserves] :
           \A t \in ToolType \ {TOOL_NAMES[1]} : f[t] = 0 }
  /\ localAutoRepeats \in
       { f \in [ToolType -> BOOLEAN] :
           \A t \in ToolType \ {TOOL_NAMES[1]} : f[t] }
  /\ quantities = LoadedQuantities(storeTools)
  /\ priceState = storePrices
  /\ minRemainders = localMinRemainders
  /\ autoRepeats = localAutoRepeats
  /\ transactions = << >>
  /\ importJobs = << >>
  /\ events = 0
  /\ inputs = ComponentInputs
  /\ limit \in Limits
  /\ enumeration = [r \in Runs |-> TOOL_NAMES]
  /\ pc = [r \in Runs |-> IF r = 1 THEN "start" ELSE "off"]
  /\ EngineLocals
  /\ SingleIdle
  /\ PriceIdle
  /\ ValueIdle
  /\ QuickIdle
  /\ cards = EmptyMap
  /\ cardPc = "render"
  /\ DbIdle
  /\ BackupIdle

\* part_001 1504-1531
RenderCards ==
  /\ cardPc = "render"
  /\ pc[1] = "done"
  /\ cards' = [t \in ToolType |-> CardProps(t, calculation[1])]
  /\ cardPc' = "rendered"
  /\ UNCHANGED << engineVars, singleVars, priceVars, valueVars, uiVars,
                  quickVars, dbVars, backupVars >>

NextCard ==
  \/ Next
  \/ RenderCards

SpecCard == InitCard /\ [][NextCard]_vars

(***************************************************************************)
(* getDB (db.ts 59-123).  A call runs to its await in one step; openDB      *)
(* returns a promise that the browser later fulfils with a new connection   *)
(* or rejects; the continuations of the callers awaiting it are queued in   *)
(* the order of their awaits and run before any other task.                 *)
(***************************************************************************)
\* db.ts 63: dbInstance.objectStoreNames.contains(STORE_TOOLS); the upgrade
\* callback (73-76) creates the store on every connection openDB delivers
ContainsStoreTools(db) == db \in connections

PromiseCachedOnceSettled(request) ==
  /\ request # NoRequest
  /\ openRequests[request].state # "pending"

\* db.ts 72: the promise cache is used when a request is cached
PromiseCached(request) == request # NoRequest

InitDb ==
  /\ EngineIdle
  /\ EngineLocals
  /\ SingleIdle
  /\ PriceIdle
  /\ ValueIdle
  /\ UiIdle
  /\ QuickIdle
  /\ CardIdle
  /\ DbIdle
  /\ BackupIdle

\* db.ts 59-113: the call up to its return at 64 or its await at 114
CallGetDB(c) ==
  /\ getDBCalls[c].pc = "idle"
  /\ microtasks = << >>
  /\ IF dbInstance # NoDB /\ ContainsStoreTools(dbInstance)
     THEN /\ getDBCalls' =
               [getDBCalls EXCEPT ![c] =
                  [pc |-> "returned", request |-> NoRequest,
                   result |-> dbInstance]]
          /\ UNCHANGED << dbInstance, dbPromise, openRequests, microtasks >>
     ELSE LET cached == IF dbInstance # NoDB THEN NoRequest ELSE dbPromise
              request == IF PromiseCached(cached) THEN cached
                         ELSE Len(openRequests) + 1
          IN  /\ request <= MaxOpens
              /\ dbInstance' = NoDB
              /\ dbPromise' = request
              /\ openRequests' =
                   LET all == IF PromiseCached(cached) THEN openRequests
                              ELSE Append(openRequests,
                                          [state |-> "pending", db |-> NoDB,
                                           reactions |-> << >>])
                   IN  IF all[request].state = "pending"
                       THEN [all EXCEPT ![request].reactions = Append(@, c)]
                       ELSE all
              /\ microtasks' =
                   IF PromiseCached(cached)
                      /\ openRequests[cached].state # "pending"
                   THEN Append(microtasks, c)
                   ELSE microtasks
              /\ getDBCalls' =
                   [getDBCalls EXCEPT ![c] =
                      [pc |-> "awaiting", request |-> request,
                       result |-> NoDB]]
  /\ UNCHANGED connections
  /\ UNCHANGED << engineVars, singleVars, priceVars, valueVars, uiVars,
                  quickVars, cardVars, backupVars >>

\* openDB's promise is fulfilled with a new connection
OpenSucceeds(request) ==
  /\ request \in 1..Len(openRequests)
  /\ openRequests[request].state = "pending"
  /\ microtasks = << >>
  /\ openRequests' = [openRequests EXCEPT ![request].state = "fulfilled",
                                         ![request].db = request]
  /\ connections' = connections \cup {request}
  /\ microtasks' = openRequests[request].reactions
  /\ UNCHANGED << dbInstance, dbPromise, getDBCalls >>
  /\ UNCHANGED << engineVars, singleVars, priceVars, valueVars, uiVars,
                  quickVars, cardVars, backupVars >>

\* openDB's promise is rejected
OpenFails(request) ==
  /\ request \in 1..Len(openRequests)
  /\ openRequests[request].state = "pending"
  /\ microtasks = << >>
  /\ openRequests' = [openRequests EXCEPT ![request].state = "rejected"]
  /\ microtasks' = openRequests[request].reactions
  /\ UNCHANGED << dbInstance, dbPromise, connections, getDBCalls >>
  /\ UNCHANGED << engineVars, singleVars, priceVars, valueVars, uiVars,
                  quickVars, cardVars, backupVars >>

\* db.ts 113-122: the continuation of the first queued caller
ResumeGetDB ==
  /\ microtasks # << >>
  /\ LET c == Head(microtasks)
         awaited == openRequests[getDBCalls[c].request]
     IN  IF awaited.state = "fulfilled"
         THEN /\ dbInstance' = awaited.db
              /\ getDBCalls' = [getDBCalls EXCEPT ![c].pc = "returned",
                                                 ![c].result = awaited.db]
              /\ UNCHANGED dbPromise
         ELSE /\ dbPromise' = NoRequest
              /\ dbInstance' = NoDB
              /\ getDBCalls' = [getDBCalls EXCEPT ![c].pc = "threw"]
  /\ microtasks' = Tail(microtasks)
  /\ UNCHANGED << openRequests, connections >>
  /\ UNCHANGED << engineVars, singleVars, priceVars, valueVars, uiVars,
                  quickVars, cardVars, backupVars >>

\* db.ts 95-102: another tab asks for an upgrade of an open connection
Blocking(db) ==
  /\ db \in connections
  /\ microtasks = << >>
  /\ IF dbInstance # NoDB
     THEN /\ connections' = connections \ {dbInstance}
          /\ dbInstance' = NoDB
          /\ dbPromise' = NoRequest
     ELSE UNCHANGED << connections, dbInstance, dbPromise >>
  /\ UNCHANGED << openRequests, getDBCalls, microtasks >>
  /\ UNCHANGED << engineVars, singleVars, priceVars, valueVars, uiVars,
                  quickVars, cardVars, backupVars >>

\* db.ts 103-107: the browser closes an open connection
Terminated(db) ==
  /\ db \in connections
  /\ microtasks = << >>
  /\ connections' = connections \ {db}
  /\ dbInstance' = NoDB
  /\ dbPromise' = NoRequest
  /\ UNCHANGED << openRequests, getDBCalls, microtasks >>
  /\ UNCHANGED << engineVars, singleVars, priceVars, valueVars, uiVars,
                  quickVars, cardVars, backupVars >>

NextDb ==
  \/ \E c \in Callers : CallGetDB(c)
  \/ \E request \in 1..MaxOpens : OpenSucceeds(request)
  \/ \E request \in 1..MaxOpens : OpenFails(request)
  \/ ResumeGetDB
  \/ \E db \in 1..MaxOpens : Blocking(db)
  \/ \E db \in 1..MaxOpens : Terminated(db)

SpecDb == InitDb /\ [][NextDb]_vars

(***************************************************************************)
(* The persistence functions of db.ts called one after the other: the      *)
(* single setters, exportData, importData and clearAllData, each run to    *)
(* completion on the two object stores and the two localStorage items.     *)
(***************************************************************************)
\* db.ts 159-162: the records of STORE_TOOLS
getAllToolQuantities == LoadedQuantities(storeTools)

\* db.ts 210-219: the records of STORE_PRICES
getAllToolPrices ==
  [ i \in 1..Len(STORE_KEY_ORDER) |->
      [tool       |-> STORE_KEY_ORDER[i],
       priceValue |-> storePrices[STORE_KEY_ORDER[i]].value,
       priceType  |-> storePrices[STORE_KEY_ORDER[i]].type] ]

\* db.ts 317-339
getAllMinRemainders ==
  [t \in ToolType |->
     IF t \in DOMAIN localMinRemainders THEN Max(0, localMinRemainders[t])
     ELSE 0]

\* db.ts 184-191
RECURSIVE setAllToolQuantities(_, _)
setAllToolQuantities(store, states) ==
  IF states = << >> THEN store
  ELSE setAllToolQuantities(
         [store EXCEPT ![Head(states).tool] = Max(0, Head(states).quantity)],
         Tail(states))

\* db.ts 253-264
RECURSIVE setAllToolPrices(_, _)
setAllToolPrices(store, entries) ==
  IF entries = << >> THEN store
  ELSE setAllToolPrices(
         [store EXCEPT ![Head(entries).tool] =
            [value |-> NumMaxZero(Head(entries).priceValue),
             type  |-> Head(entries).priceType]],
         Tail(entries))

\* db.ts 365-376
setAllMinRemainders(values) ==
  [t \in ToolType |-> IF t \in DOMAIN values THEN Max(0, values[t]) ELSE 0]

\* db.ts 196-203
resetAllToolQuantities == [t \in ToolType |-> 0]

\* db.ts 269-276
resetAllToolPrices == [t \in ToolType |-> DefaultPrice]

\* db.ts 381-387
resetAllMinRemainders == setAllMinRemainders([t \in ToolType |-> 0])

\* the tool the single setters are called for
SetterTools == {TOOL_NAMES[1]}

\* db.ts 128-152: the stores after initializeDB, nothing set yet
InitBackup ==
  /\ storeTools = [t \in ToolType |-> 0]
  /\ storePrices = [t \in ToolType |-> DefaultPrice]
  /\ localMinRemainders = [t \in ToolType |-> 0]
  /\ localAutoRepeats = [t \in ToolType |-> TRUE]
  /\ quantities = << >>
  /\ priceState = EmptyMap
  /\ minRemainders = EmptyMap
  /\ autoRepeats = EmptyMap
  /\ transactions = << >>
  /\ importJobs = << >>
  /\ events = 0
  /\ EngineIdle
  /\ EngineLocals
  /\ SingleIdle
  /\ PriceIdle
  /\ ValueIdle
  /\ QuickIdle
  /\ CardIdle
  /\ DbIdle
  /\ BackupIdle

\* db.ts 176-179
CallSetToolQuantity(tool, quantity) ==
  /\ storeTools' =
       [storeTools EXCEPT ![tool] = setToolQuantity(tool, quantity, 0).quantity]
  /\ completed' = "setToolQuantity"
  /\ UNCHANGED << storePrices, localMinRemainders, localAutoRepeats, backup >>
  /\ UNCHANGED << quantities, priceState, minRemainders, autoRepeats,
                  transactions, importJobs, events >>
  /\ UNCHANGED << engineVars, singleVars, priceVars, valueVars, quickVars,
                  cardVars, dbVars >>

\* db.ts 237-248
CallSetToolPrice(tool, priceValue, priceType) ==
  /\ storePrices' =
       [storePrices EXCEPT
          ![tool] = [value |-> setToolPrice(tool, priceValue, priceType)
                                 .priceValue,
                     type  |-> priceType]]
  /\ completed' = "setToolPrice"
  /\ UNCHANGED << storeTools, localMinRemainders, localAutoRepeats, backup >>
  /\ UNCHANGED << quantities, priceState, minRemainders, autoRepeats,
                  transactions, importJobs, events >>
  /\ UNCHANGED << engineVars, singleVars, priceVars, valueVars, quickVars,
                  cardVars, dbVars >>

\* db.ts 352-360
CallSetMinRemainder(tool, value) ==
  /\ localMinRemainders' = MapSet(getAllMinRemainders, tool, Max(0, value))
  /\ completed' = "setMinRemainder"
  /\ UNCHANGED << storeTools, storePrices, localAutoRepeats, backup >>
  /\ UNCHANGED << quantities, priceState, minRemainders, autoRepeats,
                  transactions, importJobs, events >>
  /\ UNCHANGED << engineVars, singleVars, priceVars, valueVars, quickVars,
                  cardVars, dbVars >>

\* db.ts 438-446
CallSetAutoRepeat(tool, value) ==
  /\ localAutoRepeats' = MapSet(localAutoRepeats, tool, value)
  /\ completed' = "setAutoRepeat"
  /\ UNCHANGED << storeTools, storePrices, localMinRemainders, backup >>
  /\ UNCHANGED << quantities, priceState, minRemainders, autoRepeats,
                  transactions, importJobs, events >>
  /\ UNCHANGED << engineVars, singleVars, priceVars, valueVars, quickVars,
                  cardVars, dbVars >>

\* db.ts 292-301
CallExportData ==
  /\ backup' = [tools         |-> getAllToolQuantities,
                prices        |-> getAllToolPrices,
                minRemainders |-> getAllMinRemainders]
  /\ completed' = "exportData"
  /\ UNCHANGED uiVars
  /\ UNCHANGED << engineVars, singleVars, priceVars, valueVars, quickVars,
                  cardVars, dbVars >>

\* db.ts 478-484, called with the object exportData returned
CallImportData ==
  /\ backup # NoBackup
  /\ storeTools' = setAllToolQuantities(storeTools, backup.tools)
  /\ storePrices' = setAllToolPrices(storePrices, backup.prices)
  /\ completed' = "importData"
  /\ UNCHANGED << localMinRemainders, localAutoRepeats, backup >>
  /\ UNCHANGED << quantities, priceState, minRemainders, autoRepeats,
                  transactions, importJobs, events >>
  /\ UNCHANGED << engineVars, singleVars, priceVars, valueVars, quickVars,
                  cardVars, dbVars >>

\* db.ts 283-287
CallClearAllData ==
  /\ storeTools' = resetAllToolQuantities
  /\ storePrices' = resetAllToolPrices
  /\ localMinRemainders' = resetAllMinRemainders
  /\ completed' = "clearAllData"
  /\ UNCHANGED << localAutoRepeats, backup >>
  /\ UNCHANGED << quantities, priceState, minRemainders, autoRepeats,
                  transactions, importJobs, events >>
  /\ UNCHANGED << engineVars, singleVars, priceVars, valueVars, quickVars,
                  cardVars, dbVars >>

NextBackup ==
  \/ \E tool \in SetterTools, quantity \in EnteredQuantities :
       CallSetToolQuantity(tool, quantity)
  \/ \E tool \in SetterTools, priceValue \in EnteredPrices,
        priceType \in PriceType :
       CallSetToolPrice(tool, priceValue, priceType)
  \/ \E tool \in SetterTools, value \in EnteredMinRemainders :
       CallSetMinRemainder(tool, value)
  \/ \E tool \in SetterTools, value \in BOOLEAN :
       CallSetAutoRepeat(tool, value)
  \/ CallExportData
  \/ CallImportData
  \/ CallClearAllData

SpecBackup == InitBackup /\ [][NextBackup]_vars

(***************************************************************************)
(* Properties                                                              *)
(***************************************************************************)
Returned(r) == pc[r] = "done"

SummaryRecords(r) ==
  { calculation[r].summary[i] : i \in 1..Len(calculation[r].summary) }

\* the summary of a tool in the value a call returned
SummaryOf(r, tool) == CHOOSE s \in SummaryRecords(r) : s.tool = tool

\* n = floor(x / 20), stated without division
IsFloorOfTwentieth(n, x) == 20 * n <= x /\ x < 20 * (n + 1)

Positive(x) == IF x > 0 THEN x ELSE 0

\* C1: for q, r >= 0 calculateSingleAutoclave returns autoclaveCount =
\* floor(max(0, q - r) / 20), toolsUsed = 20 * autoclaveCount and
\* remainder = q - toolsUsed >= 0; for q = 0 or r > q the count is 0 and the
\* remainder is q.
C1_SingleConversion ==
  singlePc = "returned" =>
    LET q == singleInput.quantity
        r == singleInput.minRemainder
    IN  /\ IsFloorOfTwentieth(singleResult.autoclaveCount, Positive(q - r))
        /\ singleResult.toolsUsed = 20 * singleResult.autoclaveCount
        /\ singleResult.remainder = q - singleResult.toolsUsed
        /\ singleResult.remainder >= 0
        /\ (q = 0 \/ r > q) =>
             singleResult.autoclaveCount = 0 /\ singleResult.remainder = q

C1_Witness ==
  /\ singlePc = "returned"
  /\ singleInput.minRemainder > singleInput.quantity
  /\ singleInput.quantity >= 20

\* C2: in the value calculateFullAutoclave returns, whether the loop stopped
\* at a pass without operations or at its bound, each of the 13 summaries has
\* finalQuantity = originalQuantity - totalToolsUsed + totalReceived, and
\* totalToolsUsed, totalReceived and finalQuantity are >= 0.
C2_Conservation ==
  \A r \in Runs : Returned(r) =>
    /\ Len(calculation[r].summary) = 13
    /\ \A s \in SummaryRecords(r) :
         /\ s.finalQuantity =
              s.originalQuantity - s.totalToolsUsed + s.totalReceived
         /\ s.totalToolsUsed >= 0
         /\ s.totalReceived >= 0
         /\ s.finalQuantity >= 0

C2_Witness ==
  /\ Returned(1)
  /\ calculation[1].iterations >= 2
  /\ iteration[1] > calculation[1].iterations
  /\ \E s \in SummaryRecords(1) : s.totalToolsUsed > 0 /\ s.totalReceived > 0

\* the operations the Iteration Record k of a returned value lists for a tool
CountInRecord(r, k, tool) ==
  LET processed == calculation[r].iterationDetails[k].toolsProcessed
      entries   == { i \in 1..Len(processed) : processed[i].tool = tool }
  IN  IF entries = {} THEN 0
      ELSE processed[CHOOSE i \in entries : TRUE].autoclaveCount

\* C3: iteration 1 runs every type with positive quantity through the single
\* conversion whatever its autoRepeat flag: a type with
\* quantity - minReserve >= 20 (in particular one with autoRepeat = false)
\* performs floor((quantity - minReserve) / 20) operations in iteration 1.
C3_FirstIterationAlwaysFires ==
  \A r \in Runs : Returned(r) =>
    \A s \in SummaryRecords(r) :
      s.originalQuantity - s.minRemainder >= 20 =>
        /\ calculation[r].iterations >= 1
        /\ calculation[r].iterationDetails[1].iteration = 1
        /\ IsFloorOfTwentieth(CountInRecord(r, 1, s.tool),
                              s.originalQuantity - s.minRemainder)

C3_Witness ==
  /\ Returned(1)
  /\ \E s \in SummaryRecords(1) :
       /\ s.autoRepeat = FALSE
       /\ s.originalQuantity - s.minRemainder >= 20
       /\ CountInRecord(1, 1, s.tool) >= 1

\* C4: a type whose autoRepeat flag is false is in no Iteration Record after
\* the first, and its totalToolsUsed is
\* 20 * floor(max(0, originalQuantity - minReserve) / 20) however many units
\* it receives.
C4_NoRepeatAfterFirst ==
  \A r \in Runs : Returned(r) =>
    \A s \in SummaryRecords(r) :
      s.autoRepeat = FALSE =>
        /\ \A k \in 2..Len(calculation[r].iterationDetails) :
             CountInRecord(r, k, s.tool) = 0
        /\ \E n \in 0..s.originalQuantity :
             /\ IsFloorOfTwentieth(n, Positive(s.originalQuantity - s.minRemainder))
             /\ s.totalToolsUsed = 20 * n

C4_Witness ==
  /\ Returned(1)
  /\ calculation[1].iterations >= 2
  /\ \E s \in SummaryRecords(1) :
       /\ s.autoRepeat = FALSE
       /\ s.totalReceived > 0
       /\ s.finalQuantity - s.minRemainder >= 20

\* C5: a pass in which no type yields an operation ends the loop and is not
\* recorded, so the number of iterations reported is the number of passes
\* that performed an operation; when no type has quantity - minReserve >= 20
\* no iteration is recorded and every finalQuantity is its originalQuantity.
C5_FixedPointNotRecorded ==
  \A r \in Runs :
    /\ \A k \in 1..Len(iterationDetails[r]) :
         /\ iterationDetails[r][k].iteration = k
         /\ iterationDetails[r][k].totalAutoclaves >= 1
    /\ Len(iterationDetails[r]) \in {iteration[r], iteration[r] - 1}
    /\ Len(iterationDetails[r]) = iteration[r] - 1 =>
         pc[r] \in {"summary", "done"}
    /\ Returned(r) =>
         /\ calculation[r].iterations = Len(iterationDetails[r])
         /\ calculation[r].iterationDetails = iterationDetails[r]
         /\ (\A s \in SummaryRecords(r) :
               s.originalQuantity - s.minRemainder < 20) =>
              /\ calculation[r].iterations = 0
              /\ \A s \in SummaryRecords(r) :
                   s.finalQuantity = s.originalQuantity

C5_Witness ==
  /\ Returned(1)
  /\ calculation[1].iterations >= 1
  /\ iteration[1] = calculation[1].iterations + 1

\* C6: the loop runs at most as many passes as its bound (MAX_ITERATIONS)
\* and records at most that many Iteration Records; when the bound stops the
\* loop the call still returns, with the summary accumulated so far.
C6_IterationBound ==
  \A r \in Runs :
    /\ iteration[r] <= limit
    /\ Len(iterationDetails[r]) <= limit
    /\ limit <= MAX_ITERATIONS
    /\ (Returned(r) /\ Len(iterationDetails[r]) = limit) =>
         /\ calculation[r].iterations = limit
         /\ Len(calculation[r].summary) = 13
         /\ \A s \in SummaryRecords(r) :
              /\ s.totalToolsUsed = totalUsed[r][s.tool]
              /\ s.totalReceived = totalReceived[r][s.tool]
              /\ s.finalQuantity = currentQuantities[r][s.tool]

C6_Witness ==
  /\ Returned(1)
  /\ iteration[1] = limit
  /\ calculation[1].iterations = limit
  /\ \E s \in SummaryRecords(1) : s.finalQuantity - s.minRemainder >= 20
                                  /\ s.autoRepeat

C8_OrderIndependent ==
  (Returned(1) /\ Returned(2)) =>
    /\ calculation[1].iterations = calculation[2].iterations
    /\ \A t \in ToolType : SummaryOf(1, t) = SummaryOf(2, t)

C8_Witness ==
  /\ Returned(1)
  /\ Returned(2)
  /\ enumeration[1] # enumeration[2]
  /\ calculation[1].iterations >= 2
  /\ calculation[1].iterationDetails # calculation[2].iterationDetails

RECURSIVE SumOverRecords(_, _, _)
\* operations of the types other than tool in the first k Iteration Records
SumOverRecords(r, k, tool) ==
  IF k = 0 THEN 0
  ELSE SumOverRecords(r, k - 1, tool)
       + calculation[r].iterationDetails[k].totalAutoclaves
       - CountInRecord(r, k, tool)

\* C9: a single conversion result has exactly 12 output entries, one for
\* each type other than the input type, each with quantity autoclaveCount;
\* and totalReceived of a type is the sum over all iterations of the
\* operation counts of the other types.
C9_OutputsToOthers ==
  \A r \in Runs :
    /\ \A i \in 1..Len(allResults[r]) :
         LET res == allResults[r][i]
         IN  /\ Len(res.outputTools) = 12
             /\ { res.outputTools[j].tool : j \in 1..Len(res.outputTools) }
                  = ToolType \ {res.inputTool}
             /\ \A j \in 1..Len(res.outputTools) :
                  res.outputTools[j].quantity = res.autoclaveCount
    /\ Returned(r) =>
         \A s \in SummaryRecords(r) :
           s.totalReceived =
             SumOverRecords(r, Len(calculation[r].iterationDetails), s.tool)

C9_Witness ==
  /\ Returned(1)
  /\ calculation[1].iterations >= 2
  /\ Len(allResults[1]) >= 2
  /\ \E s \in SummaryRecords(1) : s.totalReceived > 0 /\ s.totalToolsUsed > 0

\* C10: at every point of a call the working quantity of each type is
\* >= min(originalQuantity, minReserve), so a type that starts with
\* quantity >= minReserve ends with finalQuantity >= minReserve.
C10_ReserveKept ==
  \A r \in Runs :
    /\ pc[r] \notin {"off", "start"} =>
         \A t \in ToolType :
           currentQuantities[r][t] >=
             Min(InputQuantity(inputs, t),
                 MapGet(configMap[r], t, DefaultConfig).minRemainder)
    /\ Returned(r) =>
         \A s \in SummaryRecords(r) :
           s.originalQuantity >= s.minRemainder =>
             s.finalQuantity >= s.minRemainder

C10_Witness ==
  /\ pc[1] = "apply"
  /\ \E t \in ToolType :
       /\ MapGet(configMap[1], t, DefaultConfig).minRemainder > 0
       /\ totalUsed[1][t] > 0
       /\ currentQuantities[1][t] < InputQuantity(inputs, t)

\* the loop of run r ended at a pass without operations, not at its bound
StoppedAtFixedPoint(r) ==
  /\ pc[r] \in {"summary", "done"}
  /\ iteration[r] = Len(iterationDetails[r]) + 1

\* C11: when calculateFullAutoclave stops at a pass without operations (not
\* at the iteration bound), every type whose autoRepeat is true has
\* finalQuantity < 20 + minRemainder.
C11_RepeatUntilBelowThreshold ==
  \A r \in Runs : (Returned(r) /\ StoppedAtFixedPoint(r)) =>
    \A s \in SummaryRecords(r) :
      s.autoRepeat => s.finalQuantity < AUTOCLAVE_REQUIREMENT + s.minRemainder

C11_Witness ==
  /\ Returned(1)
  /\ StoppedAtFixedPoint(1)
  /\ calculation[1].iterations >= 2
  /\ \E s \in SummaryRecords(1) :
       /\ s.autoRepeat
       /\ s.minRemainder > 0
       /\ s.originalQuantity + s.totalReceived >= 20 + s.minRemainder
       /\ CountInRecord(1, 2, s.tool) >= 1
  /\ \E s \in SummaryRecords(1) :
       ~ s.autoRepeat /\ s.finalQuantity >= 20 + s.minRemainder

RECURSIVE SumOfCounts(_)
\* the sum of the counts of a toolsProcessed list
SumOfCounts(processed) ==
  IF processed = << >> THEN 0
  ELSE SumOfCounts(SubSeq(processed, 1, Len(processed) - 1))
       + processed[Len(processed)].autoclaveCount

\* the position of a tool in the 13-type enumeration
PositionOf(tool) == CHOOSE i \in 1..Len(TOOL_NAMES) : TOOL_NAMES[i] = tool

\* C19: the Iteration Records carry the indices 1, 2, ..., n in order; each
\* record's totalAutoclaves is the sum of the counts of its toolsProcessed
\* and is >= 1; every entry has count >= 1; entries follow the order of the
\* 13-type enumeration, no type twice.
C19_LogWellFormed ==
  \A r \in Runs :
    /\ \A k \in 1..Len(iterationDetails[r]) :
         LET detail    == iterationDetails[r][k]
             processed == detail.toolsProcessed
         IN  /\ detail.iteration = k
             /\ detail.totalAutoclaves = SumOfCounts(processed)
             /\ detail.totalAutoclaves >= 1
             /\ processed # << >>
             /\ \A i \in 1..Len(processed) :
                  /\ processed[i].tool \in ToolType
                  /\ processed[i].autoclaveCount >= 1
             /\ \A i, j \in 1..Len(processed) :
                  i < j => PositionOf(processed[i].tool)
                             < PositionOf(processed[j].tool)
    /\ Returned(r) => calculation[r].iterationDetails = iterationDetails[r]

C19_Witness ==
  /\ Returned(1)
  /\ Len(calculation[1].iterationDetails) >= 2
  /\ Len(calculation[1].iterationDetails[1].toolsProcessed) >= 2
  /\ Len(calculation[1].iterationDetails[2].toolsProcessed) >= 2

RECURSIVE SumOverTools(_, _)
\* the sum of a quantity map over the first k types of the enumeration
SumOverTools(map, k) ==
  IF k = 0 THEN 0
  ELSE SumOverTools(map, k - 1) + MapGet(map, TOOL_NAMES[k], 0)

RECURSIVE SumOfSummaries(_, _, _)
\* the sum of originalQuantity (final = FALSE) or finalQuantity (final =
\* TRUE) over the first k summaries
SumOfSummaries(summary, k, final) ==
  IF k = 0 THEN 0
  ELSE SumOfSummaries(summary, k - 1, final)
       + (IF final THEN summary[k].finalQuantity
                   ELSE summary[k].originalQuantity)

RECURSIVE OperationsLogged(_, _)
\* the operations of the first k Iteration Records
OperationsLogged(details, k) ==
  IF k = 0 THEN 0
  ELSE OperationsLogged(details, k - 1) + details[k].totalAutoclaves

\* C20: every operation lowers the sum of the working quantities over the
\* 13 types by exactly 8, so the sum never increases and the sum of all
\* finalQuantity is the sum of all originalQuantity minus 8 times the total
\* number of operations.
C20_SumDropsByEight ==
  \A r \in Runs :
    /\ pc[r] \notin {"off", "start"} =>
         /\ SumOverTools(currentQuantities[r], TOOLS_COUNT)
              = SumOverTools(SeedQuantities(inputs), TOOLS_COUNT)
                - 8 * SumAutoclaveCount(allResults[r])
         /\ SumOverTools(currentQuantities[r], TOOLS_COUNT)
              <= SumOverTools(SeedQuantities(inputs), TOOLS_COUNT)
    /\ Returned(r) =>
         SumOfSummaries(calculation[r].summary, TOOLS_COUNT, TRUE)
           = SumOfSummaries(calculation[r].summary, TOOLS_COUNT, FALSE)
             - 8 * OperationsLogged(calculation[r].iterationDetails,
                                    calculation[r].iterations)

C20_Witness ==
  /\ Returned(1)
  /\ calculation[1].iterations >= 2
  /\ OperationsLogged(calculation[1].iterationDetails,
                      calculation[1].iterations) >= 3
  /\ \E s \in SummaryRecords(1) : s.finalQuantity > s.originalQuantity

\* C12: toWLPerItem(v, unit) is 0 for every v <= 0 in either unit, 1/v for
\* v > 0 in 'items-per-wl' and v itself for v > 0 in 'wl-each'.
C12_PerItemValue ==
  pricePc = "returned" =>
    LET v == priceInput.value
    IN  /\ v.n <= 0 => priceResult = Zero
        /\ (v.n > 0 /\ priceInput.type = "items-per-wl") =>
             /\ IsFinite(priceResult)
             /\ priceResult.n * v.n = priceResult.d * v.d
        /\ (v.n > 0 /\ priceInput.type = "wl-each") => priceResult = v

C12_Witness ==
  /\ pricePc = "returned"
  /\ priceInput.type = "items-per-wl"
  /\ priceInput.value.n > 1
  /\ priceInput.value.d > 1
  /\ priceResult # priceInput.value

RECURSIVE QuantityListed(_, _)
\* the quantity a list of items holds of a tool, all its entries together
QuantityListed(tools, tool) ==
  IF tools = << >> THEN 0
  ELSE (IF Head(tools).tool = tool THEN Head(tools).quantity ELSE 0)
       + QuantityListed(Tail(tools), tool)

\* the value of one item of a tool: 0 without a price entry or with a price
\* <= 0, the reciprocal of an 'items-per-wl' price, a 'wl-each' price itself
PerItemValue(priceMap, tool) ==
  IF tool \notin DOMAIN priceMap THEN Zero
  ELSE IF priceMap[tool].value.n <= 0 THEN Zero
  ELSE IF priceMap[tool].type = "items-per-wl"
       THEN Number(priceMap[tool].value.d, priceMap[tool].value.n)
       ELSE priceMap[tool].value

RECURSIVE ValueOfTools(_, _, _)
\* the value of a list of items, summed type by type over the first k types
ValueOfTools(tools, priceMap, k) ==
  IF k = 0 THEN Zero
  ELSE NumAdd(ValueOfTools(tools, priceMap, k - 1),
              NumMul(FromInt(QuantityListed(tools, TOOL_NAMES[k])),
                     PerItemValue(priceMap, TOOL_NAMES[k])))

\* the items of a list whose type has a price > 0
PricedItems(tools, priceMap) ==
  SelectSeq(tools, LAMBDA item : /\ item.tool \in DOMAIN priceMap
                                 /\ priceMap[item.tool].value.n > 0)

\* the items calculateAfterValue and the summaries' original quantities give
SummaryItems(summary, final) ==
  [ k \in 1..Len(summary) |->
      [ tool     |-> summary[k].tool,
        quantity |-> IF final THEN summary[k].finalQuantity
                              ELSE summary[k].originalQuantity ] ]

\* C13: calculateTotalValue is the sum over the listed items of
\* quantity * toWLPerItem(price); an item whose type has no entry in the
\* price map, or a price <= 0, contributes exactly 0.
C13_TotalValue ==
  valuePc = "returned" =>
    LET before == calculation[1].inputs
        after  == SummaryItems(calculation[1].summary, TRUE)
    IN  /\ valueCalc.beforeValue = ValueOfTools(before, prices, TOOLS_COUNT)
        /\ valueCalc.afterValue = ValueOfTools(after, prices, TOOLS_COUNT)
        /\ calculateTotalValue(before, prices)
             = calculateTotalValue(PricedItems(before, prices), prices)
        /\ calculateTotalValue(after, prices)
             = calculateTotalValue(PricedItems(after, prices), prices)
        /\ PricedItems(before, prices) = << >> =>
             valueCalc.beforeValue = Zero

C13_Witness ==
  /\ valuePc = "returned"
  /\ NumPositive(valueCalc.beforeValue)
  /\ Len(inputs) = 2
  /\ inputs[1].tool \in DOMAIN prices
  /\ prices[inputs[1].tool].value.n <= 0
  /\ inputs[2].tool \in DOMAIN prices
  /\ prices[inputs[2].tool].type = "items-per-wl"
  /\ \E s \in SummaryRecords(1) :
       s.finalQuantity > 0 /\ s.tool \notin DOMAIN prices

\* C14: calculateValueDifference returns difference = afterValue -
\* beforeValue, isProfitable = (difference > 0) and profitPercent =
\* difference / beforeValue * 100 when beforeValue > 0; when beforeValue = 0
\* profitPercent is exactly 0 whatever afterValue is, never a non-finite
\* value.
C14_ValueDifference ==
  valuePc = "returned" =>
    /\ IsFinite(valueCalc.difference)
    /\ NumAdd(valueCalc.beforeValue, valueCalc.difference)
         = valueCalc.afterValue
    /\ valueCalc.isProfitable = (valueCalc.difference.n > 0)
    /\ IsFinite(valueCalc.profitPercent)
    /\ valueCalc.beforeValue.n > 0 =>
         NumMul(valueCalc.profitPercent, valueCalc.beforeValue)
           = NumMul(Hundred, valueCalc.difference)
    /\ valueCalc.beforeValue = Zero => valueCalc.profitPercent = Zero

C14_Witness ==
  /\ valuePc = "returned"
  /\ valueCalc.beforeValue = Zero
  /\ NumPositive(valueCalc.afterValue)
  /\ valueCalc.isProfitable

\* C15: for every input list, whether or not each type occurs exactly once
\* in it, beforeValue is the total value of the originalQuantity of the 13
\* summaries and afterValue the total value of their finalQuantity.
C15_ValuesOfSummaries ==
  valuePc = "returned" =>
    /\ valueCalc.beforeValue =
         ValueOfTools(SummaryItems(calculation[1].summary, FALSE), prices,
                      TOOLS_COUNT)
    /\ valueCalc.afterValue =
         ValueOfTools(SummaryItems(calculation[1].summary, TRUE), prices,
                      TOOLS_COUNT)

\* C16: after any sequence of quantity, price and min-remainder change
\* events, every quantity and min reserve handed to calculateFullAutoclave
\* and every price handed to the value model is >= 0.
C16_NonNegativeInputs ==
  /\ \A i \in 1..Len(ComponentInputs) :
       /\ ComponentInputs[i].quantity >= 0
       /\ ComponentInputs[i].minRemainder >= 0
  /\ \A t \in DOMAIN ComponentPriceMap : ComponentPriceMap[t].value.n >= 0

\* the entry of a detected list for a tool
DetectedFor(detectedTools, tool) ==
  { k \in 1..Len(detectedTools) : detectedTools[k].tool = tool }

\* C17: confirming a Growscan import overwrites the quantity of every
\* detected type with its detected quantity and leaves the quantity of
\* every other type unchanged, in the quantities handed to the next engine
\* run.
C17_ImportOverwritesDetected ==
  [][ \A detectedTools \in DetectedLists :
        HandleGrowscanImport(detectedTools) =>
          \A i \in 1..Len(TOOL_NAMES) :
            /\ ComponentInputs'[i].tool = TOOL_NAMES[i]
            /\ \A k \in DetectedFor(detectedTools, TOOL_NAMES[i]) :
                 ComponentInputs'[i].quantity = detectedTools[k].quantity
            /\ DetectedFor(detectedTools, TOOL_NAMES[i]) = {} =>
                 ComponentInputs'[i].quantity = ComponentInputs[i].quantity
    ]_vars

\* an import has just been confirmed, every earlier write is complete: a
\* type was overwritten and another kept a quantity > 0
C17_Witness ==
  /\ importJobs # << >>
  /\ importJobs[Len(importJobs)].imported = quantities
  /\ importJobs[Len(importJobs)].next = 2
  /\ Len(transactions) = 1
  /\ transactions[1].job = Len(importJobs)
  /\ \E t \in ToolType : JsMapGet(quantities, t, 0) # storeTools[t]
  /\ \E t \in ToolType :
       JsMapGet(quantities, t, 0) = storeTools[t] /\ storeTools[t] > 0

\* C18: once every quantity change has been fully processed (no write is
\* pending) and the quantities entered are non-negative, the persisted
\* quantity of each tool is the quantity held in the component state.
C18_PersistedIsEntered ==
  ( /\ transactions = << >>
    /\ \A i \in 1..Len(quantities) : quantities[i].quantity >= 0 ) =>
    \A t \in ToolType : storeTools[t] = JsMapGet(quantities, t, 0)

\* C21: the number of recorded iterations is at most floor(T / 8), T the
\* sum of the original quantities, at every point of a call and whatever
\* the bound; so with the bound of 1000 and T < 8000 the loop always ends
\* at a pass without operations, never at the bound.
C21_TerminatesWithoutBound ==
  \A r \in Runs :
    LET T == SumOverTools(SeedQuantities(inputs), TOOLS_COUNT)
    IN  /\ pc[r] \notin {"off", "start"} =>
             /\ 8 * Len(iterationDetails[r]) <= T
             /\ 8 * SumAutoclaveCount(allResults[r]) <= T
        /\ (limit = MAX_ITERATIONS /\ T < 8 * MAX_ITERATIONS
              /\ pc[r] \in {"summary", "done"}) =>
             /\ StoppedAtFixedPoint(r)
             /\ iteration[r] < MAX_ITERATIONS

C21_Witness ==
  /\ Returned(1)
  /\ limit = MAX_ITERATIONS
  /\ calculation[1].iterations >= 2
  /\ StoppedAtFixedPoint(1)
  /\ SumOverTools(SeedQuantities(inputs), TOOLS_COUNT) >= 400

RECURSIVE StartQuantity(_, _, _)
\* the working quantity of a tool at the start of pass k of a returned
\* call, from the input list and the Iteration Records before k
StartQuantity(r, k, tool) ==
  IF k = 1 THEN InputQuantity(inputs, tool)
  ELSE StartQuantity(r, k - 1, tool)
       - AUTOCLAVE_REQUIREMENT * CountInRecord(r, k - 1, tool)
       + (calculation[r].iterationDetails[k - 1].totalAutoclaves
          - CountInRecord(r, k - 1, tool))

\* C22: within one iteration every type's operation count is computed from
\* the working quantities at the start of that iteration; units received
\* during iteration k count only from iteration k + 1 on, and the final
\* quantities are those the recorded counts give.
C22_CountsFromPassStart ==
  \A r \in Runs : Returned(r) =>
    \A s \in SummaryRecords(r) :
      /\ \A k \in 1..Len(calculation[r].iterationDetails) :
           IF k = 1 \/ s.autoRepeat
           THEN IsFloorOfTwentieth(
                  CountInRecord(r, k, s.tool),
                  Positive(StartQuantity(r, k, s.tool) - s.minRemainder))
           ELSE CountInRecord(r, k, s.tool) = 0
      /\ s.finalQuantity =
           StartQuantity(r, Len(calculation[r].iterationDetails) + 1, s.tool)

\* a type later in the enumeration received, during pass 1, enough units for
\* an operation it did not have at the start of the pass: it performs none
\* in pass 1 and one in pass 2
C22_Witness ==
  /\ Returned(1)
  /\ calculation[1].iterations >= 2
  /\ \E s \in SummaryRecords(1) :
       /\ s.originalQuantity > 0
       /\ s.originalQuantity - s.minRemainder < AUTOCLAVE_REQUIREMENT
       /\ CountInRecord(1, 1, s.tool) = 0
       /\ CountInRecord(1, 2, s.tool) >= 1
       /\ \E i \in 1..Len(calculation[1].iterationDetails[1].toolsProcessed) :
            PositionOf(calculation[1].iterationDetails[1].toolsProcessed[i].tool)
              < PositionOf(s.tool)

\* the price map gives every one of the 13 types the per-item value p > 0
UniformValue(priceMap, p) ==
  /\ p.n > 0
  /\ \A t \in ToolType : PerItemValue(priceMap, t) = p

\* C23: when all 13 types have the same positive per-item value p,
\* calculateValueDifference yields difference = -8 * p * (total number of
\* operations): isProfitable is false for every input, and difference < 0
\* whenever at least one operation was performed.
C23_UniformNeverProfitable ==
  valuePc = "returned" =>
    LET p          == PerItemValue(prices, TOOL_NAMES[1])
        operations == OperationsLogged(calculation[1].iterationDetails,
                                       calculation[1].iterations)
    IN  UniformValue(prices, p) =>
          /\ valueCalc.difference = NumMul(FromInt(0 - 8 * operations), p)
          /\ ~ valueCalc.isProfitable
          /\ operations >= 1 => valueCalc.difference.n < 0

\* no type is named by two entries of the input list
OneEntryPerType(ins) ==
  \A i, j \in 1..Len(ins) : ins[i].tool = ins[j].tool => i = j

RECURSIVE SumOfBreakdown(_, _, _)
\* the sum of a field of the first k records of a breakdown
SumOfBreakdown(records, k, field) ==
  IF k = 0 THEN Zero
  ELSE NumAdd(SumOfBreakdown(records, k - 1, field),
              IF field = "beforeValue" THEN records[k].beforeValue
              ELSE IF field = "afterValue" THEN records[k].afterValue
              ELSE records[k].valueDifference)

\* C24: for an input list that names no type twice, getValueBreakdown
\* returns one record per type, and the sums of its beforeValue, afterValue
\* and valueDifference fields are the beforeValue, afterValue and
\* difference of calculateValueDifference.
C24_BreakdownAgrees ==
  (valuePc = "done" /\ OneEntryPerType(inputs)) =>
    /\ Len(breakdown) = TOOLS_COUNT
    /\ \A i \in 1..Len(breakdown) : breakdown[i].tool = TOOL_NAMES[i]
    /\ SumOfBreakdown(breakdown, Len(breakdown), "beforeValue")
         = valueCalc.beforeValue
    /\ SumOfBreakdown(breakdown, Len(breakdown), "afterValue")
         = valueCalc.afterValue
    /\ SumOfBreakdown(breakdown, Len(breakdown), "valueDifference")
         = valueCalc.difference

C24_Witness ==
  /\ valuePc = "done"
  /\ Len(inputs) = TOOLS_COUNT
  /\ OneEntryPerType(inputs)
  /\ NumPositive(valueCalc.beforeValue)
  /\ valueCalc.difference # Zero
  /\ \E i \in 1..Len(breakdown) :
       /\ breakdown[i].priceType = "items-per-wl"
       /\ NumPositive(breakdown[i].beforeValue)
  /\ \E i \in 1..Len(breakdown) :
       breakdown[i].priceValue.n < 0 /\ breakdown[i].beforeQuantity > 0

\* C25: for an input list that names no type twice, canAutoclave is true
\* exactly when calculateFullAutoclave records at least one iteration, and
\* getTotalAutoclaveOperations is the totalAutoclaves of Iteration Record 1
\* (0 when no iteration is recorded).
C25_QuickChecksAgree ==
  (quickPc = "returned" /\ OneEntryPerType(inputs)) =>
    /\ quickResult.canAutoclave = (calculation[1].iterations >= 1)
    /\ quickResult.totalOperations =
         IF calculation[1].iterations >= 1
         THEN calculation[1].iterationDetails[1].totalAutoclaves
         ELSE 0

C25_Witness ==
  /\ quickPc = "returned"
  /\ Len(inputs) = 2
  /\ OneEntryPerType(inputs)
  /\ quickResult.canAutoclave
  /\ quickResult.totalOperations >= 2
  /\ calculation[1].iterations >= 2
  /\ \E i \in 1..Len(inputs) :
       /\ inputs[i].quantity >= AUTOCLAVE_REQUIREMENT
       /\ inputs[i].quantity - inputs[i].minRemainder < AUTOCLAVE_REQUIREMENT

\* C26: for every tool, the finalQuantity its card is given (shown as
\* 'quantity -> finalQuantity') is the finalQuantity of that tool's summary
\* from the engine run on the current inputs, also when that finalQuantity
\* is 0.
C26_CardShowsFinalQuantity ==
  cardPc = "rendered" =>
    \A t \in ToolType :
      /\ cards[t].quantity = JsMapGet(quantities, t, 0)
      /\ cards[t].finalQuantity = SummaryOf(1, t).finalQuantity

\* the open requests in the given state
RequestsIn(state) ==
  { r \in 1..Len(openRequests) : openRequests[r].state = state }

\* the connections openDB delivered that are no longer open
ClosedConnections == { r \in RequestsIn("fulfilled") : r \notin connections }

\* C27: getDB's promise cache keeps concurrent callers from opening more
\* than one connection: while no connection exists at most one openDB
\* request is pending however the calls interleave (openDB is called again
\* only after the request before it was rejected or its connection closed),
\* every waiting caller waits for that one request, at most one connection
\* is open, and every caller of one request receives the same instance.
C27_OneConnection ==
  /\ Cardinality(RequestsIn("pending")) + Cardinality(connections) <= 1
  /\ Len(openRequests) <=
       1 + Cardinality(RequestsIn("rejected")) + Cardinality(ClosedConnections)
  /\ \A c \in Callers :
       getDBCalls[c].pc = "awaiting"
         /\ openRequests[getDBCalls[c].request].state = "pending"
         => getDBCalls[c].request = dbPromise
  /\ \A c1, c2 \in Callers :
       /\ getDBCalls[c1].pc = "returned"
       /\ getDBCalls[c2].pc = "returned"
       /\ getDBCalls[c1].request = getDBCalls[c2].request
       /\ getDBCalls[c1].request # NoRequest
       => getDBCalls[c1].result = getDBCalls[c2].result

\* three callers called getDB while no connection existed and all returned
\* the connection of the one request
C27_Witness ==
  /\ Len(openRequests) = 1
  /\ \A c \in Callers :
       /\ getDBCalls[c].pc = "returned"
       /\ getDBCalls[c].request = 1
       /\ getDBCalls[c].result = 1

\* C28: after clearAllData has completed, all persisted user data is at
\* its default: every quantity 0, every price 0 'wl-each', every min
\* remainder 0 and every auto-repeat flag true.
C28_ClearedIsDefault ==
  completed = "clearAllData" =>
    \A t \in ToolType :
      /\ storeTools[t] = 0
      /\ storePrices[t] = DefaultPrice
      /\ getAllMinRemainders[t] = 0
      /\ localAutoRepeats[t] = TRUE

\* C29: after importData has completed with the backup exportData returned,
\* whatever was changed in between, the persisted quantities, prices and
\* min remainders are those of the time of the export.
C29_BackupRoundTrip ==
  completed = "importData" =>
    /\ getAllToolQuantities = backup.tools
    /\ getAllToolPrices = backup.prices
    /\ getAllMinRemainders = backup.minRemainders

====
